---- MODULE Spec2Model ----
(***************************************************************************)
(* Model of the triplet Markov chain of markov-telegram-bot-rs             *)
(* (src/src/markov_chain.rs): the trainer (add_message,                    *)
(* remove_markov_chain) and the generator (generate, generate_internal).   *)
(*                                                                         *)
(* Strings are sequences of one-character strings, so that escaping,       *)
(* splitting, lower-casing and trimming are computed character by          *)
(* character as the code does.  The empty token is the empty sequence.     *)
(***************************************************************************)
EXTENDS Integers, Sequences, FiniteSets, TLC

(***************************************************************************)
(* Bounds of the model.                                                    *)
(***************************************************************************)
\* longest trained message, in tokens
MaxLen == 2
\* number of add_message calls on the chain under training
MaxAdds == 2
\* number of messages the chain handed to remove_markov_chain was built from
MaxOther == 1

\* longest message of a chain handed to the generator, in tokens
MaxGenLen == 3
\* number of messages a chain handed to the generator was trained on
MaxGenAdds == 2
\* largest value of a length requirement
MaxValue == 3
\* frames of generate_internal the thread's stack has room for
MaxStackDepth == 6

\* longest message of a chain trained on one message only, in tokens
MaxSingleLen == 3
\* number of times such a chain was trained on its message
MaxRepeat == 2

\* longest string handed to the field codec, in characters
MaxFieldLen == 3
\* longest token of a pair handed to pair_to_string, in characters
MaxTokenLen == 2
\* longest part of a /msg command handed to parse_length_requirement, in
\* characters, the parts that hold the largest i32 aside
MaxPartLen == 3

\* number of messages of the chat whose handlers run concurrently
MaxTasks == 2

\* number of messages of a chat export file
MaxExport == 2

\* number of messages whose handlers run in the full model of handle_message
MaxHandlers == 3

\* the tokens messages are made of: a plain word, a decorated capitalised
\* word, a word with the reserved '$' prefix, a word of punctuation only
Words == { <<"a">>, <<"A", "!">>, <<"$", "a">>, <<"!">> }

(***************************************************************************)
(* Characters and strings.                                                 *)
(***************************************************************************)
is_whitespace(c) == c = " "

\* the letters and digits of the texts of the model
is_alphanumeric(c) ==
    c \in {"a", "b", "c", "d", "e", "f", "g", "h", "i", "j", "k", "l", "m",
           "n", "o", "p", "q", "r", "s", "t", "u", "v", "w", "x", "y", "z",
           "A", "B", "N", "U", "Y",
           "0", "1", "2", "3", "4", "5", "6", "7", "8", "9"}

char_to_lowercase(c) ==
    IF c = "A" THEN "a" ELSE IF c = "B" THEN "b" ELSE IF c = "N" THEN "n"
    ELSE IF c = "U" THEN "u" ELSE IF c = "Y" THEN "y" ELSE c

to_lowercase(s) == [i \in 1..Len(s) |-> char_to_lowercase(s[i])]

\* str::trim_matches(|c| !c.is_alphanumeric())
trim_matches(s) ==
    LET keep == {i \in 1..Len(s) : is_alphanumeric(s[i])}
    IN  IF keep = {} THEN <<>>
        ELSE LET lo == CHOOSE i \in keep : \A j \in keep : i <= j
                 hi == CHOOSE i \in keep : \A j \in keep : i >= j
             IN  SubSeq(s, lo, hi)

RECURSIVE split_whitespace(_)
\* str::split_whitespace: the maximal runs of non-whitespace characters
split_whitespace(text) ==
    IF text = <<>> THEN <<>>
    ELSE IF is_whitespace(text[1]) THEN split_whitespace(Tail(text))
    ELSE LET stops == {i \in 1..Len(text) : is_whitespace(text[i])}
             end == IF stops = {} THEN Len(text) + 1
                    ELSE CHOOSE i \in stops : \A j \in stops : i <= j
         IN  <<SubSeq(text, 1, end - 1)>>
                 \o split_whitespace(SubSeq(text, end, Len(text)))

RECURSIVE JoinWords(_)
\* a message text: the words separated by single spaces
JoinWords(ws) ==
    IF ws = <<>> THEN <<>>
    ELSE IF Len(ws) = 1 THEN ws[1]
    ELSE ws[1] \o <<" ">> \o JoinWords(Tail(ws))

WordSeqs(n) == UNION {[1..k -> Words] : k \in 1..n}

\* the words of the chains handed to the generator: a plain word and a
\* capitalised word with the reserved prefix and trailing punctuation
GenWords == { <<"a">>, <<"$", "A", "!">> }

\* the texts the chains handed to the generator are trained on
GenTexts == {JoinWords(ws) : ws \in UNION {[1..k -> GenWords] : k \in 1..MaxGenLen}}

\* the seeds given to generate: a trained word as trained, in another case
\* and with decoration added or dropped, and a word never trained
Seeds == { <<"a">>, <<"A">>, <<"a", "!">>, <<"$", "A", "!">>, <<"b">> }

\* the message texts: every sequence of 1..MaxLen words, the empty text and
\* a text of whitespace only
Texts == {JoinWords(ws) : ws \in WordSeqs(MaxLen)} \cup {<<>>, <<" ", " ">>}

(***************************************************************************)
(* FieldCodec.                                                             *)
(***************************************************************************)
\* encode_db_field_name that escapes nothing
encode_db_field_name_escapes_nothing(s) == s

encode_db_field_name(s) ==
    IF Len(s) >= 1 /\ s[1] = "$" THEN <<"\\">> \o s ELSE s

\* decode_db_field_name that drops any leading backslash
decode_db_field_name_drops_any_backslash(s) ==
    IF Len(s) >= 1 /\ s[1] = "\\" THEN Tail(s) ELSE s

decode_db_field_name(s) ==
    IF Len(s) >= 2 /\ s[1] = "\\" /\ s[2] = "$" THEN Tail(s) ELSE s

\* pair_to_string that escapes each token of the pair
pair_to_string_escapes_both(pair) ==
    encode_db_field_name(pair[1]) \o <<" ">> \o encode_db_field_name(pair[2])

pair_to_string(pair) == encode_db_field_name(pair[1] \o <<" ">> \o pair[2])

\* pair_to_string panics where debug assertions are compiled in and a token
\* of the pair holds whitespace
pair_to_string_panics(pair, dbg) ==
    dbg /\ \E j \in 1..2 : \E i \in 1..Len(pair[j]) : is_whitespace(pair[j][i])

\* position of the first space of s, 0 when there is none (str::find)
FindSpace(s) ==
    LET sp == {i \in 1..Len(s) : s[i] = " "}
    IN  IF sp = {} THEN 0 ELSE CHOOSE i \in sp : \A j \in sp : i <= j

string_to_pair(s) ==
    LET i == FindSpace(s)
    IN  <<SubSeq(s, 1, i - 1), SubSeq(s, i + 1, Len(s))>>

\* string_to_pair panics: on a string without a space in every build, and,
\* where debug assertions are compiled in, on an empty or blank string
string_to_pair_panics(s, dbg) ==
    \/ FindSpace(s) = 0
    \/ dbg /\ (s = <<>> \/ \A i \in 1..Len(s) : is_whitespace(s[i]))

\* get_associated_seeds_encoded without the trimmed form
get_associated_seeds_encoded_lowercase_only(decoded_word) ==
    { encode_db_field_name(to_lowercase(decoded_word)) }

get_associated_seeds_encoded(decoded_word) ==
    { encode_db_field_name(to_lowercase(decoded_word)),
      encode_db_field_name(trim_matches(to_lowercase(decoded_word))) }

(***************************************************************************)
(* Maps.  A HashMap is a function; the empty map is the empty function.    *)
(***************************************************************************)
EmptyMap == <<>>

MapPut(m, k, v) == [x \in DOMAIN m \cup {k} |-> IF x = k THEN v ELSE m[x]]

MapRemove(m, k) == [x \in DOMAIN m \ {k} |-> m[x]]

RECURSIVE SumValues(_)
\* word_map.values().sum()
SumValues(m) ==
    IF DOMAIN m = {} THEN 0
    ELSE LET k == CHOOSE x \in DOMAIN m : TRUE
         IN  m[k] + SumValues(MapRemove(m, k))

(***************************************************************************)
(* TripletMarkovChain: a record [data, meta].                              *)
(***************************************************************************)
EmptyChain == [data |-> EmptyMap, meta |-> EmptyMap]

RECURSIVE AddSeeds(_, _, _)
\* the loop of add_word_triplet over the associated seeds
AddSeeds(meta_, seeds, key) ==
    IF seeds = {} THEN meta_
    ELSE LET seed_encoded == CHOOSE x \in seeds : TRUE
             next == IF seed_encoded = <<>> THEN meta_
                     ELSE IF seed_encoded \in DOMAIN meta_
                          THEN MapPut(meta_, seed_encoded,
                                      meta_[seed_encoded] \cup {key})
                          ELSE MapPut(meta_, seed_encoded, {key})
         IN  AddSeeds(next, seeds \ {seed_encoded}, key)

\* add_word_triplet that registers the context as the only one of each
\* associated seed
add_word_triplet_resets_seeds(chain, pair, third) ==
    LET pair_string_encoded == pair_to_string(pair)
        third_encoded == encode_db_field_name(third)
        word_map == IF pair_string_encoded \in DOMAIN chain.data
                    THEN chain.data[pair_string_encoded] ELSE EmptyMap
        count == IF third_encoded \in DOMAIN word_map
                 THEN word_map[third_encoded] ELSE 0
        seeds == get_associated_seeds_encoded(pair[2]) \ {<<>>}
    IN  [data |-> MapPut(chain.data, pair_string_encoded,
                         MapPut(word_map, third_encoded, count + 1)),
         meta |-> [sd \in DOMAIN chain.meta \cup seeds |->
                      IF sd \in seeds THEN {pair_string_encoded}
                      ELSE chain.meta[sd]]]

add_word_triplet(chain, pair, third) ==
    LET pair_string_encoded == pair_to_string(pair)
        third_encoded == encode_db_field_name(third)
        new_data ==
            IF pair_string_encoded \in DOMAIN chain.data
            THEN LET word_map == chain.data[pair_string_encoded]
                 IN  IF third_encoded \in DOMAIN word_map
                     THEN MapPut(chain.data, pair_string_encoded,
                                 MapPut(word_map, third_encoded,
                                        word_map[third_encoded] + 1))
                     ELSE MapPut(chain.data, pair_string_encoded,
                                 MapPut(word_map, third_encoded, 1))
            ELSE MapPut(chain.data, pair_string_encoded,
                        MapPut(EmptyMap, third_encoded, 1))
    IN  [data |-> new_data,
         meta |-> AddSeeds(chain.meta, get_associated_seeds_encoded(pair[2]),
                           pair_string_encoded)]

RECURSIVE AddWords_drops_last_window(_, _, _)
\* AddWords without the triplet of the last word and the boundary
AddWords_drops_last_window(chain, last_pair, words) ==
    IF words = <<>>
    THEN add_word_triplet(chain, last_pair, <<>>)
    ELSE AddWords_drops_last_window(add_word_triplet(chain, last_pair, words[1]),
                                    <<last_pair[2], words[1]>>, Tail(words))

RECURSIVE AddWords(_, _, _)
\* the for loop of add_message: one triplet per word, last_pair shifting
AddWords(chain, last_pair, words) ==
    IF words = <<>>
    THEN LET c1 == add_word_triplet(chain, last_pair, <<>>)
         IN  add_word_triplet(c1, <<last_pair[2], <<>>>>, <<>>)
    ELSE AddWords(add_word_triplet(chain, last_pair, words[1]),
                  <<last_pair[2], words[1]>>, Tail(words))

add_message(chain, text) ==
    LET words == split_whitespace(text)
    IN  IF words = <<>> THEN chain
        ELSE AddWords(chain, <<<<>>, <<>>>>, words)

RECURSIVE RemoveSeeds_keeps_empty_set(_, _, _)
\* RemoveSeeds without the pruning of an emptied meta entry
RemoveSeeds_keeps_empty_set(st, seeds, key) ==
    IF seeds = {} \/ st.fault THEN st
    ELSE LET seed_encoded == CHOOSE x \in seeds : TRUE
             next ==
                 IF seed_encoded \notin DOMAIN st.meta
                 THEN [st EXCEPT !.fault = TRUE]
                 ELSE [st EXCEPT !.meta = MapPut(st.meta, seed_encoded,
                                                 st.meta[seed_encoded] \ {key})]
         IN  RemoveSeeds_keeps_empty_set(next, seeds \ {seed_encoded}, key)

RECURSIVE RemoveSeeds(_, _, _)
\* the loop of remove_word_triplet over the associated seeds; fault is the
\* failed unwrap of self.meta.get_mut(&seed_encoded)
RemoveSeeds(st, seeds, key) ==
    IF seeds = {} \/ st.fault THEN st
    ELSE LET seed_encoded == CHOOSE x \in seeds : TRUE
             next ==
                 IF seed_encoded \notin DOMAIN st.meta
                 THEN [st EXCEPT !.fault = TRUE]
                 ELSE LET associated_keys_set == st.meta[seed_encoded] \ {key}
                      IN  IF associated_keys_set = {}
                          THEN [st EXCEPT !.meta = MapRemove(st.meta, seed_encoded)]
                          ELSE [st EXCEPT !.meta = MapPut(st.meta, seed_encoded,
                                                          associated_keys_set)]
         IN  RemoveSeeds(next, seeds \ {seed_encoded}, key)

\* remove_word_triplet that leaves an emptied distribution under its key
remove_word_triplet_keeps_empty_map(st, pair, third, amount) ==
    LET pair_string_encoded == pair_to_string(pair)
        third_encoded == encode_db_field_name(third)
    IN  IF pair_string_encoded \notin DOMAIN st.data THEN st
        ELSE LET word_map == st.data[pair_string_encoded]
             IN  IF third_encoded \notin DOMAIN word_map THEN st
                 ELSE LET new_count == word_map[third_encoded] - amount
                      IN  IF new_count > 0
                          THEN [st EXCEPT !.data =
                                   MapPut(st.data, pair_string_encoded,
                                          MapPut(word_map, third_encoded, new_count))]
                          ELSE [st EXCEPT !.data =
                                   MapPut(st.data, pair_string_encoded,
                                          MapRemove(word_map, third_encoded))]

\* remove_word_triplet that removes the context from data but not from meta
remove_word_triplet_keeps_meta(st, pair, third, amount) ==
    LET pair_string_encoded == pair_to_string(pair)
        third_encoded == encode_db_field_name(third)
    IN  IF pair_string_encoded \notin DOMAIN st.data THEN st
        ELSE LET word_map == st.data[pair_string_encoded]
             IN  IF third_encoded \notin DOMAIN word_map THEN st
                 ELSE LET new_count == word_map[third_encoded] - amount
                      IN  IF new_count > 0
                          THEN [st EXCEPT !.data =
                                   MapPut(st.data, pair_string_encoded,
                                          MapPut(word_map, third_encoded, new_count))]
                          ELSE LET rest == MapRemove(word_map, third_encoded)
                               IN  IF rest # EmptyMap
                                   THEN [st EXCEPT !.data =
                                            MapPut(st.data, pair_string_encoded, rest)]
                                   ELSE [st EXCEPT !.data =
                                            MapRemove(st.data, pair_string_encoded)]

\* st is the chain with a fault flag: [data, meta, fault]
remove_word_triplet(st, pair, third, amount) ==
    LET pair_string_encoded == pair_to_string(pair)
        third_encoded == encode_db_field_name(third)
    IN  IF pair_string_encoded \notin DOMAIN st.data THEN st
        ELSE LET word_map == st.data[pair_string_encoded]
             IN  IF third_encoded \notin DOMAIN word_map THEN st
                 ELSE LET new_count == word_map[third_encoded] - amount
                      IN  IF new_count > 0
                          THEN [st EXCEPT !.data =
                                   MapPut(st.data, pair_string_encoded,
                                          MapPut(word_map, third_encoded, new_count))]
                          ELSE LET rest == MapRemove(word_map, third_encoded)
                               IN  IF rest # EmptyMap
                                   THEN [st EXCEPT !.data =
                                            MapPut(st.data, pair_string_encoded, rest)]
                                   ELSE RemoveSeeds(
                                            [st EXCEPT !.data =
                                                MapRemove(st.data, pair_string_encoded)],
                                            get_associated_seeds_encoded(pair[2]),
                                            pair_string_encoded)

\* the (pair, third) entries of a chain's data
Triplets(chain) ==
    {<<k, t>> : k \in DOMAIN chain.data, t \in UNION {DOMAIN chain.data[x] : x \in DOMAIN chain.data}}
        \cap {kt \in (DOMAIN chain.data) \X UNION {DOMAIN chain.data[x] : x \in DOMAIN chain.data} :
                 kt[2] \in DOMAIN chain.data[kt[1]]}

RECURSIVE RemoveTriplets(_, _, _, _)
\* the two nested loops of remove_markov_chain; a panic ends them
RemoveTriplets(st, other, todo, dbg) ==
    IF todo = {} \/ st.fault THEN st
    ELSE LET kt == CHOOSE x \in todo : TRUE
             next ==
                 IF string_to_pair_panics(kt[1], dbg)
                 THEN [st EXCEPT !.fault = TRUE]
                 ELSE remove_word_triplet(st, string_to_pair(kt[1]), kt[2],
                                          other.data[kt[1]][kt[2]])
         IN  RemoveTriplets(next, other, todo \ {kt}, dbg)

remove_markov_chain(chain, other, dbg) ==
    RemoveTriplets([data |-> chain.data, meta |-> chain.meta, fault |-> FALSE],
                   other, Triplets(other), dbg)

RECURSIVE TrainAll(_)
\* the chain built from the empty chain by add_message on each text in turn
TrainAll(texts) ==
    IF texts = <<>> THEN EmptyChain
    ELSE add_message(TrainAll(SubSeq(texts, 1, Len(texts) - 1)), texts[Len(texts)])

\* the chains a caller can pass to remove_markov_chain
OtherChains == {TrainAll(ts) : ts \in UNION {[1..k -> Texts] : k \in 1..MaxOther}}

(***************************************************************************)
(* LengthRequirement.  value and n are i32, 0 <= n.                        *)
(***************************************************************************)
ComparisonOperators == {"<", "<=", "=", ">", ">="}

I32Max == 2147483647

is_valid(lr) ==
    CASE lr.comparison_operator = "<"  -> lr.value > 1
      [] lr.comparison_operator = "<=" -> lr.value > 0
      [] lr.comparison_operator = "="  -> lr.value > 0
      [] lr.comparison_operator = ">"  -> lr.value > 0
      [] lr.comparison_operator = ">=" -> lr.value > 1

\* difference(n) overflows i32: for 0 <= value and 0 <= n, value - n is in
\* range, and only the + 1 of GreaterThan can leave it
difference_overflows(lr, n) ==
    lr.comparison_operator = ">" /\ lr.value - n = I32Max

\* the i32 that difference(n) returns where overflow is not checked: the
\* overflowing sum wraps around to the least i32
difference(lr, n) ==
    IF difference_overflows(lr, n) THEN (-I32Max) - 1
    ELSE CASE lr.comparison_operator = "<"  -> lr.value - n - 1
           [] lr.comparison_operator = "<=" -> lr.value - n
           [] lr.comparison_operator = "="  -> lr.value - n
           [] lr.comparison_operator = ">"  -> lr.value - n + 1
           [] lr.comparison_operator = ">=" -> lr.value - n

is_satisfied_by(lr, n) ==
    CASE lr.comparison_operator = "<"  -> n < lr.value
      [] lr.comparison_operator = "<=" -> n <= lr.value
      [] lr.comparison_operator = "="  -> n = lr.value
      [] lr.comparison_operator = ">"  -> n > lr.value
      [] lr.comparison_operator = ">=" -> n >= lr.value

(***************************************************************************)
(* Generator: the parts of generate and generate_internal that do not      *)
(* depend on where the search stands.                                      *)
(***************************************************************************)
\* Option<&String>: None and Some(word)
NoSeed == [some |-> FALSE, word |-> <<>>]

SomeSeed(word) == [some |-> TRUE, word |-> word]

\* Option<&LengthRequirement>: None and Some(LengthRequirement)
NoRequirement == [comparison_operator |-> "=", some |-> FALSE, value |-> 0]

SomeRequirement(op, v) == [comparison_operator |-> op, some |-> TRUE, value |-> v]

\* generate has not returned
NoResult == [kind |-> "None", words |-> <<>>]

\* the items choose_from_frequency_map can return: the random number falls
\* below the cumulative count of an item only if that item has a count
choose_from_frequency_map(map) == {k \in DOMAIN map : map[k] >= 1}

RECURSIVE Orders(_)
\* the orders in which repeated choose_from_frequency_map and remove can
\* empty a frequency map
Orders(map) ==
    IF DOMAIN map = {} THEN {<<>>}
    ELSE UNION { {<<selected>> \o rest : rest \in Orders(MapRemove(map, selected))} :
                 selected \in choose_from_frequency_map(map) }

\* get_connections_in_weighted_random_order that leaves the successor encoded
get_connections_in_weighted_random_order_keeps_encoding(chain, pair) ==
    LET pair_string == pair_to_string(pair)
    IN  IF pair_string \in DOMAIN chain.data
        THEN LET second_encoded == encode_db_field_name(pair[2])
             IN  { [i \in 1..Len(order) |-> <<second_encoded, order[i]>>] :
                   order \in Orders(chain.data[pair_string]) }
        ELSE {<<>>}

\* get_connections_in_weighted_random_order that keeps the first word of
\* the pair as the first word of the connections
get_connections_in_weighted_random_order_keeps_first(chain, pair) ==
    LET pair_string == pair_to_string(pair)
    IN  IF pair_string \in DOMAIN chain.data
        THEN { [i \in 1..Len(order) |->
                   <<pair[1], decode_db_field_name(order[i])>>] :
               order \in Orders(chain.data[pair_string]) }
        ELSE {<<>>}

\* the vectors get_connections_in_weighted_random_order can return
get_connections_in_weighted_random_order(chain, pair) ==
    LET pair_string == pair_to_string(pair)
    IN  IF pair_string \in DOMAIN chain.data
        THEN LET second_encoded == encode_db_field_name(pair[2])
             IN  { [i \in 1..Len(order) |->
                       <<second_encoded, decode_db_field_name(order[i])>>] :
                   order \in Orders(chain.data[pair_string]) }
        ELSE {<<>>}

\* generate_starts that checks the length requirement before the emptiness
generate_starts_checks_requirement_first(chain, seed_, lr) ==
    IF lr.some /\ ~is_valid(lr) THEN [kind |-> "LengthRequirementInvalid"]
    ELSE IF chain.data = EmptyMap THEN [kind |-> "Empty"]
    ELSE IF ~seed_.some
         THEN [kind |-> "starts", starts |-> (<< <<>>, <<>> >> :> 1)]
    ELSE LET word_encoded == encode_db_field_name(to_lowercase(seed_.word))
         IN  IF word_encoded \notin DOMAIN chain.meta THEN [kind |-> "NoSuchSeed"]
             ELSE LET key_set == chain.meta[word_encoded]
                  IN  IF \E key \in key_set : key \notin DOMAIN chain.data
                      THEN [kind |-> "panic"]
                      ELSE [kind |-> "starts",
                            starts |-> [pr \in {string_to_pair(key) : key \in key_set}
                                          |-> SumValues(chain.data[
                                                  CHOOSE key \in key_set :
                                                      string_to_pair(key) = pr])]]

\* generate_starts that looks the seed up as given, not lower-cased
generate_starts_keeps_case(chain, seed_, lr) ==
    IF chain.data = EmptyMap THEN [kind |-> "Empty"]
    ELSE IF lr.some /\ ~is_valid(lr) THEN [kind |-> "LengthRequirementInvalid"]
    ELSE IF ~seed_.some
         THEN [kind |-> "starts", starts |-> (<< <<>>, <<>> >> :> 1)]
    ELSE LET word_encoded == encode_db_field_name(seed_.word)
         IN  IF word_encoded \notin DOMAIN chain.meta THEN [kind |-> "NoSuchSeed"]
             ELSE LET key_set == chain.meta[word_encoded]
                  IN  IF \E key \in key_set : key \notin DOMAIN chain.data
                      THEN [kind |-> "panic"]
                      ELSE [kind |-> "starts",
                            starts |-> [pr \in {string_to_pair(key) : key \in key_set}
                                          |-> SumValues(chain.data[
                                                  CHOOSE key \in key_set :
                                                      string_to_pair(key) = pr])]]

\* the first lines of generate, up to the frequency map of the starts:
\* an error, a panic (the unwrap of self.data.get(key)), or the map
generate_starts(chain, seed_, lr) ==
    IF chain.data = EmptyMap THEN [kind |-> "Empty"]
    ELSE IF lr.some /\ ~is_valid(lr) THEN [kind |-> "LengthRequirementInvalid"]
    ELSE IF ~seed_.some
         THEN [kind |-> "starts", starts |-> (<< <<>>, <<>> >> :> 1)]
    ELSE LET word_encoded == encode_db_field_name(to_lowercase(seed_.word))
         IN  IF word_encoded \notin DOMAIN chain.meta THEN [kind |-> "NoSuchSeed"]
             ELSE LET key_set == chain.meta[word_encoded]
                  IN  IF \E key \in key_set : key \notin DOMAIN chain.data
                      THEN [kind |-> "panic"]
                      ELSE [kind |-> "starts",
                            starts |-> [pr \in {string_to_pair(key) : key \in key_set}
                                          |-> SumValues(chain.data[
                                                  CHOOSE key \in key_set :
                                                      string_to_pair(key) = pr])]]

at_path_end(start) == start[1] # <<>> /\ start[2] = <<>>

\* generate_internal_entry that fails a branch only when fewer words are
\* needed, and so accepts the end of a path that needs more
generate_internal_entry_accepts_short(lr, start, current_length, dbg) ==
    IF /\ lr.some
       /\ ~is_satisfied_by(lr, current_length)
       /\ dbg
       /\ difference_overflows(lr, current_length)
    THEN "panic"
    ELSE IF /\ lr.some
            /\ ~is_satisfied_by(lr, current_length)
            /\ difference(lr, current_length) < 0
    THEN "Err"
    ELSE IF at_path_end(start) THEN "Ok"
    ELSE "expand"

\* generate_internal_entry that fails a branch only at the end of a path
\* that needs more words, and so goes on when fewer words are needed
generate_internal_entry_never_prunes(lr, start, current_length, dbg) ==
    IF /\ lr.some
       /\ ~is_satisfied_by(lr, current_length)
       /\ dbg
       /\ difference_overflows(lr, current_length)
    THEN "panic"
    ELSE IF /\ lr.some
            /\ ~is_satisfied_by(lr, current_length)
            /\ at_path_end(start) /\ difference(lr, current_length) > 0
    THEN "Err"
    ELSE IF at_path_end(start) THEN "Ok"
    ELSE "expand"

\* the head of generate_internal(length_requirement, start, current_length):
\* "panic" (overflow in difference, where it is checked), "Err" (the
\* requirement cannot be met from here), "Ok" (end of a path) or "expand"
generate_internal_entry(lr, start, current_length, dbg) ==
    IF /\ lr.some
       /\ ~is_satisfied_by(lr, current_length)
       /\ dbg
       /\ difference_overflows(lr, current_length)
    THEN "panic"
    ELSE IF /\ lr.some
            /\ ~is_satisfied_by(lr, current_length)
            /\ \/ difference(lr, current_length) < 0
               \/ at_path_end(start) /\ difference(lr, current_length) > 0
    THEN "Err"
    ELSE IF at_path_end(start) THEN "Ok"
    ELSE "expand"

RECURSIVE PathOf(_)
\* the list a successful search returns: every frame of the recursion
\* pushes the second word of its start to the front, if it is a real word
PathOf(frames) ==
    IF frames = <<>> THEN <<>>
    ELSE (IF frames[1].start[2] # <<>> THEN <<frames[1].start[2]>> ELSE <<>>)
             \o PathOf(Tail(frames))

(***************************************************************************)
(* The chain under training.                                               *)
(***************************************************************************)
VARIABLES
    data,              \* TripletMarkovChain::data
    meta,              \* TripletMarkovChain::meta
    fault,             \* a trainer call panicked
    debug_assertions,  \* the build checks debug assertions and overflow
    nadds,             \* add_message calls so far
    hist,              \* the last trainer call: its kind (an "undo" removes
                       \* the fresh chain of the text just added), the chain
                       \* before it (pre), the chain before the add an undo
                       \* reverses (base), its arguments
    gen_pc,            \* where generate stands: "idle", "starts" (the while
                       \* loop), "search" (in generate_internal), "done"
                       \* (returned), "crashed" (panic or stack overflow)
    seed,              \* generate's seed argument
    length_requirement,\* generate's length_requirement argument
    starts,            \* generate's starts map, drawn starts removed
    stack,             \* the active calls of generate_internal, outermost
                       \* first: start, current_length, the rest of queue
    result,            \* what generate returned, or how it crashed
    drawn,             \* the starts drawn so far, in order
    call,              \* the last call of a free function or of a method of
                       \* LengthRequirement: its name, argument and result
    db,                \* the document of the chat in the chats collection
    tasks,             \* the spawned handle_message tasks: where each
                       \* stands, its message, the ChatData it holds
    writes,            \* the tasks whose write_chat_data succeeded, in order
    chats,             \* the chats collection: the document of each chat id
    prompts,           \* PROMPTS: chat id -> user id -> Prompt
    sent,              \* per chat, the number of questions the bot has sent;
                       \* the k-th has message id k
    handlers,          \* the spawned handle_message tasks of the full
                       \* handler: where each stands, its message, what it
                       \* holds and what it did
    user_infos,        \* the user_infos collection: lower-cased username ->
                       \* user id
    import             \* the run of import_chat: where it stands, the
                       \* export, the ChatData it holds, users_cache, the
                       \* add_message calls it made

trainer_vars == <<data, meta, fault, debug_assertions, nadds, hist>>

gen_vars == <<gen_pc, seed, length_requirement, starts, stack, result, drawn>>

fn_vars == <<call>>

chat_vars == <<chats, prompts, sent, handlers, user_infos, import>>

bot_vars == <<db, tasks, writes, chats, prompts, sent, handlers, user_infos,
              import>>

vars == <<data, meta, fault, debug_assertions, nadds, hist,
          gen_pc, seed, length_requirement, starts, stack, result, drawn,
          call, db, tasks, writes, chats, prompts, sent, handlers, user_infos,
          import>>

Chain == [data |-> data, meta |-> meta]

NoHist == [op |-> "new", pre |-> EmptyChain, base |-> EmptyChain,
           text |-> <<>>, other |-> EmptyChain]

\* generate has not been called
GenIdle ==
    /\ gen_pc = "idle"
    /\ seed = NoSeed
    /\ length_requirement = NoRequirement
    /\ starts = EmptyMap
    /\ stack = <<>>
    /\ result = NoResult
    /\ drawn = <<>>

\* no free function has been called
NoCall == [fn |-> "none"]

FnIdle == call = NoCall

\* Option<ChatData> of find_one: no document of the chat
NoDocument == [some |-> FALSE, data |-> EmptyMap]

\* message.chat.id of the chats: a group and a supergroup
ChatIds == {-1, -1001}

\* import_chat has not been called
NoImport ==
    [pc |-> "idle", chat_id |-> 0, export |-> <<>>, at |-> 0,
     snapshot |-> NoDocument, chat_data |-> EmptyMap, users_cache |-> EmptyMap,
     num_messages_imported |-> 0, calls |-> <<>>, writes |-> 0,
     error |-> "none"]

\* no task of add_to_markov_chain has been spawned
TasksIdle ==
    /\ db = NoDocument
    /\ tasks = <<>>
    /\ writes = <<>>

\* no prompt is registered and no handler has been spawned
HandlersIdle ==
    /\ prompts = EmptyMap
    /\ sent = [c \in ChatIds |-> 0]
    /\ handlers = <<>>
    /\ user_infos = EmptyMap

\* no message has been received
BotIdle ==
    /\ TasksIdle
    /\ chats = [c \in ChatIds |-> NoDocument]
    /\ HandlersIdle
    /\ import = NoImport

Init ==
    /\ data = EmptyMap
    /\ meta = EmptyMap
    /\ fault = FALSE
    /\ debug_assertions \in BOOLEAN
    /\ nadds = 0
    /\ hist = NoHist
    /\ GenIdle
    /\ FnIdle
    /\ BotIdle

\* TripletMarkovChain::add_message(text)
AddMessage(text) ==
    /\ ~fault
    /\ nadds < MaxAdds
    /\ LET c == add_message(Chain, text)
       IN  /\ data' = c.data
           /\ meta' = c.meta
    /\ nadds' = nadds + 1
    /\ hist' = [op |-> "add", pre |-> Chain, base |-> Chain,
                text |-> text, other |-> EmptyChain]
    /\ UNCHANGED <<fault, debug_assertions>>
    /\ UNCHANGED <<gen_vars, fn_vars, bot_vars>>

\* TripletMarkovChain::remove_markov_chain(other).  A panic unwinds into the
\* caller, which owns the chain and drops it: the chain is left as it was.
RemoveMarkovChain(other) ==
    /\ ~fault
    /\ LET r == remove_markov_chain(Chain, other, debug_assertions)
           undo == hist.op = "add" /\ other = add_message(EmptyChain, hist.text)
       IN  /\ fault' = r.fault
           /\ data' = IF r.fault THEN data ELSE r.data
           /\ meta' = IF r.fault THEN meta ELSE r.meta
           /\ hist' = [op |-> IF undo THEN "undo" ELSE "remove",
                       pre |-> Chain,
                       base |-> IF undo THEN hist.pre ELSE EmptyChain,
                       text |-> IF undo THEN hist.text ELSE <<>>,
                       other |-> other]
    /\ UNCHANGED <<debug_assertions, nadds>>
    /\ UNCHANGED <<gen_vars, fn_vars, bot_vars>>

Next ==
    \/ \E text \in Texts : AddMessage(text)
    \/ \E other \in OtherChains : RemoveMarkovChain(other)

Spec == Init /\ [][Next]_vars

(***************************************************************************)
(* The generator, one call of generate on a trained chain.                 *)
(***************************************************************************)
\* the length requirements given to generate
LengthRequirements ==
    {SomeRequirement(op, v) : op \in ComparisonOperators, v \in 0..MaxValue}

RECURSIVE TrainSets(_)
\* the chains trained on at most n texts of GenTexts
TrainSets(n) ==
    IF n = 0 THEN {EmptyChain}
    ELSE LET prev == TrainSets(n - 1)
         IN  prev \cup {add_message(c, t) : c \in prev, t \in GenTexts}

GenChains == TrainSets(MaxGenAdds)

InitGen ==
    /\ \E c \in GenChains : data = c.data /\ meta = c.meta
    /\ fault = FALSE
    /\ debug_assertions \in BOOLEAN
    /\ nadds = 0
    /\ hist = NoHist
    /\ GenIdle
    /\ FnIdle
    /\ BotIdle

\* generate(seed, length_requirement), up to the while loop
Generate(seed_, lr) ==
    /\ gen_pc = "idle"
    /\ ~fault
    /\ seed' = seed_
    /\ length_requirement' = lr
    /\ LET r == generate_starts(Chain, seed_, lr)
       IN  /\ gen_pc' = IF r.kind = "starts" THEN "starts"
                        ELSE IF r.kind = "panic" THEN "crashed" ELSE "done"
           /\ starts' = IF r.kind = "starts" THEN r.starts ELSE EmptyMap
           /\ result' = IF r.kind = "starts" THEN NoResult
                        ELSE [kind |-> r.kind, words |-> <<>>]
    /\ UNCHANGED <<stack, drawn>>
    /\ UNCHANGED <<trainer_vars, fn_vars, bot_vars>>

\* StartsExhausted that gives up with a last candidate start left untried
StartsExhausted_gives_up_early ==
    /\ gen_pc = "starts"
    /\ Cardinality(DOMAIN starts) <= 1
    /\ gen_pc' = "done"
    /\ result' = [kind |-> "CannotMeetLengthRequirement", words |-> <<>>]
    /\ UNCHANGED <<seed, length_requirement, starts, stack, drawn>>
    /\ UNCHANGED <<trainer_vars, fn_vars, bot_vars>>

\* the while loop found starts empty
StartsExhausted ==
    /\ gen_pc = "starts"
    /\ starts = EmptyMap
    /\ gen_pc' = "done"
    /\ result' = [kind |-> "CannotMeetLengthRequirement", words |-> <<>>]
    /\ UNCHANGED <<seed, length_requirement, starts, stack, drawn>>
    /\ UNCHANGED <<trainer_vars, fn_vars, bot_vars>>

\* Call in which a failed recursive call ends the for loop of its caller
Call_stops_at_first_failure(frames, pair, n) ==
    LET entry == generate_internal_entry(length_requirement, pair, n,
                                         debug_assertions)
    IN  CASE entry = "panic" ->
               /\ gen_pc' = "crashed"
               /\ result' = [kind |-> "panic", words |-> <<>>]
               /\ UNCHANGED stack
          [] entry = "Err" ->
               /\ gen_pc' = IF frames = <<>> THEN "starts" ELSE "search"
               /\ stack' = IF frames = <<>> THEN frames
                           ELSE [frames EXCEPT ![Len(frames)].queue = <<>>]
               /\ result' = result
          [] entry = "Ok" ->
               /\ gen_pc' = "done"
               /\ stack' = <<>>
               /\ result' = [kind |-> "Ok", words |-> PathOf(frames)]
          [] entry = "expand" ->
               IF Len(frames) >= MaxStackDepth
               THEN /\ gen_pc' = "crashed"
                    /\ result' = [kind |-> "stack overflow", words |-> <<>>]
                    /\ UNCHANGED stack
               ELSE /\ gen_pc' = "search"
                    /\ \E queue \in get_connections_in_weighted_random_order(Chain, pair) :
                          stack' = Append(frames, [start |-> pair,
                                                   current_length |-> n,
                                                   queue |-> queue])
                    /\ result' = result

\* the call generate_internal(length_requirement, pair, n) made with the
\* calls of frames active: gen_pc, stack and result after its head has run
Call(frames, pair, n) ==
    LET entry == generate_internal_entry(length_requirement, pair, n,
                                         debug_assertions)
    IN  CASE entry = "panic" ->
               /\ gen_pc' = "crashed"
               /\ result' = [kind |-> "panic", words |-> <<>>]
               /\ UNCHANGED stack
          [] entry = "Err" ->
               /\ gen_pc' = IF frames = <<>> THEN "starts" ELSE "search"
               /\ stack' = frames
               /\ result' = result
          [] entry = "Ok" ->
               /\ gen_pc' = "done"
               /\ stack' = <<>>
               /\ result' = [kind |-> "Ok", words |-> PathOf(frames)]
          [] entry = "expand" ->
               IF Len(frames) >= MaxStackDepth
               THEN /\ gen_pc' = "crashed"
                    /\ result' = [kind |-> "stack overflow", words |-> <<>>]
                    /\ UNCHANGED stack
               ELSE /\ gen_pc' = "search"
                    /\ \E queue \in get_connections_in_weighted_random_order(Chain, pair) :
                          stack' = Append(frames, [start |-> pair,
                                                   current_length |-> n,
                                                   queue |-> queue])
                    /\ result' = result

\* one turn of the while loop: draw a start, remove it, search from it
DrawStart ==
    /\ gen_pc = "starts"
    /\ \E start \in choose_from_frequency_map(starts) :
          /\ starts' = MapRemove(starts, start)
          /\ drawn' = Append(drawn, start)
          /\ Call(<<>>, start, 0)
    /\ UNCHANGED <<seed, length_requirement>>
    /\ UNCHANGED <<trainer_vars, fn_vars, bot_vars>>

\* one turn of the for loop of the innermost generate_internal: the
\* recursive call on the next pair of queue
Descend ==
    /\ gen_pc = "search"
    /\ LET top == stack[Len(stack)]
       IN  /\ top.queue # <<>>
           /\ Call([stack EXCEPT ![Len(stack)].queue = Tail(top.queue)],
                   Head(top.queue),
                   top.current_length + (IF top.start[2] # <<>> THEN 1 ELSE 0))
    /\ UNCHANGED <<seed, length_requirement, starts, drawn>>
    /\ UNCHANGED <<trainer_vars, fn_vars, bot_vars>>

\* the for loop of the innermost generate_internal is over: it returns Err
Backtrack ==
    /\ gen_pc = "search"
    /\ stack[Len(stack)].queue = <<>>
    /\ stack' = SubSeq(stack, 1, Len(stack) - 1)
    /\ gen_pc' = IF Len(stack) = 1 THEN "starts" ELSE "search"
    /\ UNCHANGED <<seed, length_requirement, starts, result, drawn>>
    /\ UNCHANGED <<trainer_vars, fn_vars, bot_vars>>

NextGen ==
    \/ \E s \in {SomeSeed(w) : w \in Seeds} \cup {NoSeed},
          lr \in LengthRequirements \cup {NoRequirement} :
          Generate(s, lr)
    \/ StartsExhausted
    \/ DrawStart
    \/ Descend
    \/ Backtrack

SpecGen == InitGen /\ [][NextGen]_vars

(***************************************************************************)
(* The generator on a chain trained on one message of distinct tokens.     *)
(***************************************************************************)
\* the tokens of such a message: a plain word, a word with the reserved
\* prefix, and a decorated word whose trimmed lower-cased form is the first
SingleWords == { <<"a">>, <<"$", "B">>, <<"A", "!">> }

\* the messages of 1..MaxSingleLen distinct tokens
SingleTexts ==
    {JoinWords(ws) : ws \in {f \in UNION {[1..k -> SingleWords] : k \in 1..MaxSingleLen} :
                                 \A i, j \in 1..Len(f) : f[i] = f[j] => i = j}}

RECURSIVE TrainRepeated(_, _)
\* the chain trained k times on text
TrainRepeated(text, k) ==
    IF k = 0 THEN EmptyChain ELSE add_message(TrainRepeated(text, k - 1), text)

InitSingle ==
    /\ \E text \in SingleTexts, k \in 1..MaxRepeat :
          /\ data = TrainRepeated(text, k).data
          /\ meta = TrainRepeated(text, k).meta
          /\ nadds = k
          /\ hist = [op |-> "add", pre |-> TrainRepeated(text, k - 1),
                     base |-> TrainRepeated(text, k - 1),
                     text |-> text, other |-> EmptyChain]
    /\ fault = FALSE
    /\ debug_assertions \in BOOLEAN
    /\ GenIdle
    /\ FnIdle
    /\ BotIdle

NextSingle ==
    \/ \E s \in {SomeSeed(w) : w \in SingleWords} \cup {NoSeed},
          lr \in {NoRequirement, SomeRequirement("<=", 1)} :
          Generate(s, lr)
    \/ StartsExhausted
    \/ DrawStart
    \/ Descend
    \/ Backtrack

SpecSingle == InitSingle /\ [][NextSingle]_vars

(***************************************************************************)
(* generate without a seed on the chain of a chat in which words with the  *)
(* reserved prefix and with its escaped form were sent, with no length     *)
(* requirement or with the largest one is_valid accepts.                   *)
(***************************************************************************)
\* the messages: 1..MaxLen words, each a plain word, a word with the
\* reserved prefix, or a word that begins with a backslash and the
\* reserved prefix
EscapeTexts ==
    {JoinWords(ws) :
        ws \in UNION {[1..k -> { <<"a">>, <<"$", "a">>, <<"\\", "$", "a">> }] :
                         k \in 1..MaxLen}}

\* the chain was trained on a message, and on a second one or on an empty
\* text
InitEscape ==
    /\ \E t1 \in EscapeTexts, t2 \in EscapeTexts \cup {<<>>} :
          LET c == add_message(add_message(EmptyChain, t1), t2)
          IN  data = c.data /\ meta = c.meta
    /\ fault = FALSE
    /\ debug_assertions \in BOOLEAN
    /\ nadds = 0
    /\ hist = NoHist
    /\ GenIdle
    /\ FnIdle
    /\ BotIdle

NextEscape ==
    \/ \E lr \in {NoRequirement, SomeRequirement(">", I32Max)} : Generate(NoSeed, lr)
    \/ StartsExhausted
    \/ DrawStart
    \/ Descend
    \/ Backtrack

SpecEscape == InitEscape /\ [][NextEscape]_vars

(***************************************************************************)
(* The free functions and the methods of LengthRequirement, one call at a  *)
(* time on arguments of bounded size.                                      *)
(***************************************************************************)
\* the characters of the strings: the reserved prefix, the escape character,
\* a letter and a space
FieldChars == {"$", "\\", "a", " "}

FieldStrings == UNION {[1..k -> FieldChars] : k \in 0..MaxFieldLen}

\* the tokens of a pair: strings of at most MaxTokenLen characters
PairTokens == {s \in FieldStrings : Len(s) <= MaxTokenLen}

\* the tokens split_whitespace yields, or the boundary token: no whitespace
IsToken(s) == \A i \in 1..Len(s) : ~is_whitespace(s[i])

\* the keys add_word_triplet stores for pairs of tokens
StoredKeys == {pair_to_string(<<a, b>>) : a, b \in {s \in PairTokens : IsToken(s)}}

\* the values of a LengthRequirement: around 0 and 1, and the largest i32
ReqValues == (-1..MaxValue) \cup {I32Max}

\* the requirements is_valid is called on
FnRequirements ==
    {SomeRequirement(op, v) : op \in ComparisonOperators, v \in ReqValues}

\* str::starts_with
starts_with(s, prefix) ==
    /\ Len(s) >= Len(prefix)
    /\ SubSeq(s, 1, Len(prefix)) = prefix

\* the value of a decimal digit
digit_value(c) ==
    CASE c = "0" -> 0 [] c = "1" -> 1 [] c = "2" -> 2 [] c = "3" -> 3
      [] c = "4" -> 4 [] c = "5" -> 5 [] c = "6" -> 6 [] c = "7" -> 7
      [] c = "8" -> 8 [] c = "9" -> 9 [] OTHER -> 0 - 1

RECURSIVE parse_digits(_, _, _)
\* the loop of str::parse::<i32> over the digits: the value is built up
\* from 0, upwards after '+' or no sign and downwards after '-', and a
\* character that is no digit or a value out of the range of i32 ends the
\* loop with Err
parse_digits(s, acc, negative) ==
    IF s = <<>> THEN [ok |-> TRUE, value |-> acc]
    ELSE LET d == digit_value(Head(s))
         IN  IF d < 0 THEN [ok |-> FALSE, value |-> 0]
             ELSE IF negative
             THEN IF acc < ((0 - I32Max) - 1 + d + 9) \div 10
                  THEN [ok |-> FALSE, value |-> 0]
                  ELSE parse_digits(Tail(s), acc * 10 - d, negative)
             ELSE IF acc > (I32Max - d) \div 10
                  THEN [ok |-> FALSE, value |-> 0]
                  ELSE parse_digits(Tail(s), acc * 10 + d, negative)

\* str::parse::<i32>: an optional sign and at least one digit
parse_i32(s) ==
    IF s = <<>> THEN [ok |-> FALSE, value |-> 0]
    ELSE IF Head(s) \in {"+", "-"}
    THEN IF Tail(s) = <<>> THEN [ok |-> FALSE, value |-> 0]
         ELSE parse_digits(Tail(s), 0, Head(s) = "-")
    ELSE parse_digits(s, 0, FALSE)

\* COMPARISON_OPERATORS: the operator of each prefix
COMPARISON_OPERATORS ==
    (<<">">> :> ">") @@ (<<">", "=">> :> ">=") @@ (<<"<">> :> "<")
    @@ (<<"<", "=">> :> "<=") @@ (<<"=">> :> "=")

\* the orders COMPARISON_OPERATORS.iter() may yield the entries in: the
\* HashMap is seeded at random when it is built
IterationOrders ==
    {order \in [1..5 -> DOMAIN COMPARISON_OPERATORS] :
        \A i, j \in 1..5 : order[i] = order[j] => i = j}

\* Result<Option<LengthRequirement>, ParseIntError>: Ok(None)
OkNoRequirement == [ok |-> TRUE, requirement |-> NoRequirement]

RECURSIVE parse_length_requirement_from(_, _, _)
\* the loop of parse_length_requirement from the i-th entry on: the first
\* prefix the string starts with decides, and the rest of the string is
\* parsed as an i32
parse_length_requirement_from(s, order, i) ==
    IF i > Len(order) THEN OkNoRequirement
    ELSE IF starts_with(s, order[i])
    THEN LET value == parse_i32(SubSeq(s, Len(order[i]) + 1, Len(s)))
         IN  IF value.ok
             THEN [ok |-> TRUE,
                   requirement |-> SomeRequirement(COMPARISON_OPERATORS[order[i]],
                                                   value.value)]
             ELSE [ok |-> FALSE, requirement |-> NoRequirement]
    ELSE parse_length_requirement_from(s, order, i + 1)

parse_length_requirement(s, order) == parse_length_requirement_from(s, order, 1)

\* the parts of a /msg command parse_length_requirement is called on:
\* short strings of operators, a digit, a sign and a letter, and the
\* largest i32 and the numbers next to the range of i32 behind an operator
PartStrings ==
    UNION {[1..k -> {"<", ">", "=", "5", "-", "a"}] : k \in 0..MaxPartLen}
    \cup { <<">", "2", "1", "4", "7", "4", "8", "3", "6", "4", "7">>,
           <<">", "=", "2", "1", "4", "7", "4", "8", "3", "6", "4", "7">>,
           <<"<", "2", "1", "4", "7", "4", "8", "3", "6", "4", "8">>,
           <<"=", "-", "2", "1", "4", "7", "4", "8", "3", "6", "4", "8">> }

\* the functions are pure: a behaviour is one call on the arguments chosen
InitFn == Init

EncodeDbFieldName(s) ==
    /\ FnIdle
    /\ call' = [fn |-> "encode_db_field_name", arg |-> s, panicked |-> FALSE,
                ret |-> encode_db_field_name(s)]
    /\ UNCHANGED <<trainer_vars, gen_vars, bot_vars>>

DecodeDbFieldName(s) ==
    /\ FnIdle
    /\ call' = [fn |-> "decode_db_field_name", arg |-> s, panicked |-> FALSE,
                ret |-> decode_db_field_name(s)]
    /\ UNCHANGED <<trainer_vars, gen_vars, bot_vars>>

PairToString(pair) ==
    /\ FnIdle
    /\ call' = IF pair_to_string_panics(pair, debug_assertions)
               THEN [fn |-> "pair_to_string", arg |-> pair, panicked |-> TRUE,
                     ret |-> <<>>]
               ELSE [fn |-> "pair_to_string", arg |-> pair, panicked |-> FALSE,
                     ret |-> pair_to_string(pair)]
    /\ UNCHANGED <<trainer_vars, gen_vars, bot_vars>>

StringToPair(s) ==
    /\ FnIdle
    /\ call' = IF string_to_pair_panics(s, debug_assertions)
               THEN [fn |-> "string_to_pair", arg |-> s, panicked |-> TRUE,
                     ret |-> <<>>]
               ELSE [fn |-> "string_to_pair", arg |-> s, panicked |-> FALSE,
                     ret |-> string_to_pair(s)]
    /\ UNCHANGED <<trainer_vars, gen_vars, bot_vars>>

IsValid(lr) ==
    /\ FnIdle
    /\ call' = [fn |-> "is_valid", arg |-> lr, panicked |-> FALSE,
                ret |-> is_valid(lr)]
    /\ UNCHANGED <<trainer_vars, gen_vars, bot_vars>>

ParseLengthRequirement(s, order) ==
    /\ FnIdle
    /\ call' = [fn |-> "parse_length_requirement", arg |-> s, order |-> order,
                panicked |-> FALSE, ret |-> parse_length_requirement(s, order)]
    /\ UNCHANGED <<trainer_vars, gen_vars, bot_vars>>

NextFn ==
    \/ \E s \in FieldStrings : EncodeDbFieldName(s)
    \/ \E s \in FieldStrings \cup {encode_db_field_name(t) : t \in FieldStrings} :
          DecodeDbFieldName(s)
    \/ \E a \in PairTokens, b \in PairTokens : PairToString(<<a, b>>)
    \/ \E s \in FieldStrings \cup StoredKeys : StringToPair(s)
    \/ \E lr \in FnRequirements : IsValid(lr)
    \/ /\ FnIdle
       /\ \E s \in PartStrings, order \in IterationOrders :
             ParseLengthRequirement(s, order)

SpecFn == InitFn /\ [][NextFn]_vars

(***************************************************************************)
(* The bot (src/src/markov_telegram_bot.rs): the tasks spawned by run for  *)
(* the text messages of one chat, each in add_to_markov_chain.             *)
(***************************************************************************)
\* the virtual user id of the chain of all users of a chat
ALL == "all"

\* message.from.id.to_string() of the senders
BotUsers == {"1", "2"}

\* message.text of the messages
BotTexts == { <<"a">>, <<"A", "!">> }

\* the text messages of the chat: sender and text
Messages == [from : BotUsers, text : BotTexts]

\* ChatData::add_message(user_id, text) on the data map of a ChatData
chat_data_add_message(chat_data, user_id, text) ==
    IF user_id \in DOMAIN chat_data
    THEN MapPut(chat_data, user_id, add_message(chat_data[user_id], text))
    ELSE MapPut(chat_data, user_id, add_message(EmptyChain, text))

\* the two ChatData::add_message calls of add_to_markov_chain
add_to_both_chains(chat_data, message) ==
    chat_data_add_message(
        chat_data_add_message(chat_data, message.from, message.text),
        ALL, message.text)

InitBot == Init

\* run: the next update holds a message; its handler is spawned
HandleMessage(message) ==
    /\ Len(tasks) < MaxTasks
    /\ tasks' = Append(tasks, [pc |-> "read", message |-> message,
                               snapshot |-> NoDocument, chat_data |-> EmptyMap,
                               result |-> "None"])
    /\ UNCHANGED <<db, writes>>
    /\ UNCHANGED <<trainer_vars, gen_vars, fn_vars, chat_vars>>

\* add_to_markov_chain up to the call of write_chat_data: read_chat_data
\* returns the stored document or None, and the message is added in memory
ReadChatData(i) ==
    /\ tasks[i].pc = "read"
    /\ LET chat_data == IF db.some THEN db.data ELSE EmptyMap
       IN  tasks' = [tasks EXCEPT
                        ![i].pc = "write",
                        ![i].snapshot = db,
                        ![i].chat_data = add_to_both_chains(chat_data, tasks[i].message)]
    /\ UNCHANGED <<db, writes>>
    /\ UNCHANGED <<trainer_vars, gen_vars, fn_vars, chat_vars>>

\* read_chat_data returns Err: add_to_markov_chain returns it
ReadChatDataFails(i) ==
    /\ tasks[i].pc = "read"
    /\ tasks' = [tasks EXCEPT ![i].pc = "done", ![i].result = "Err"]
    /\ UNCHANGED <<db, writes>>
    /\ UNCHANGED <<trainer_vars, gen_vars, fn_vars, chat_vars>>

\* WriteChatData that replaces the document only if it is still the one
\* the task read
WriteChatData_checks_snapshot(i) ==
    /\ tasks[i].pc = "write"
    /\ db = tasks[i].snapshot
    /\ db' = [some |-> TRUE, data |-> tasks[i].chat_data]
    /\ tasks' = [tasks EXCEPT ![i].pc = "done", ![i].result = "Ok"]
    /\ writes' = Append(writes, i)
    /\ UNCHANGED <<trainer_vars, gen_vars, fn_vars, chat_vars>>

\* write_chat_data: replace_one with upsert puts the task's ChatData in the
\* place of the document of the chat
WriteChatData(i) ==
    /\ tasks[i].pc = "write"
    /\ db' = [some |-> TRUE, data |-> tasks[i].chat_data]
    /\ tasks' = [tasks EXCEPT ![i].pc = "done", ![i].result = "Ok"]
    /\ writes' = Append(writes, i)
    /\ UNCHANGED <<trainer_vars, gen_vars, fn_vars, chat_vars>>

\* write_chat_data returns Err: the document stays as it is
WriteChatDataFails(i) ==
    /\ tasks[i].pc = "write"
    /\ tasks' = [tasks EXCEPT ![i].pc = "done", ![i].result = "Err"]
    /\ UNCHANGED <<db, writes>>
    /\ UNCHANGED <<trainer_vars, gen_vars, fn_vars, chat_vars>>

NextBot ==
    \/ \E message \in Messages : HandleMessage(message)
    \/ \E i \in 1..Len(tasks) : ReadChatData(i)
    \/ \E i \in 1..Len(tasks) : ReadChatDataFails(i)
    \/ \E i \in 1..Len(tasks) : WriteChatData(i)
    \/ \E i \in 1..Len(tasks) : WriteChatDataFails(i)

SpecBot == InitBot /\ [][NextBot]_vars

(***************************************************************************)
(* import_chat (src/src/markov_telegram_bot.rs) on the export read by      *)
(* read_chat_export (src/src/import.rs).                                   *)
(***************************************************************************)
\* MessageContents::PlainText(text)
PlainText(text) == [kind |-> "PlainText", text |-> text, pieces |-> <<>>]

\* MessageContents::Pieces(pieces)
Pieces(pieces) == [kind |-> "Pieces", text |-> <<>>, pieces |-> pieces]

\* TextPiece::PlainText(text)
PlainPiece(text) == [entity |-> FALSE, type_field |-> "", text |-> text]

\* TextPiece::Entity(Entity { type_field, text })
EntityPiece(type_field, text) ==
    [entity |-> TRUE, type_field |-> type_field, text |-> text]

\* Display for MessageContents: the text, or the texts of the pieces
\* joined by single spaces
contents_to_string(contents) ==
    IF contents.kind = "PlainText" THEN contents.text
    ELSE JoinWords([i \in 1..Len(contents.pieces) |-> contents.pieces[i].text])

\* the "text" values of the exported messages: a plain text, an empty
\* list of pieces, a command with its argument, a text that ends in an
\* entity and a text that begins with an entity that is not a command
ExportContents ==
    { PlainText(<<"a">>),
      Pieces(<<>>),
      Pieces(<<EntityPiece("bot_command", <<"/", "m">>), PlainPiece(<<"a">>)>>),
      Pieces(<<PlainPiece(<<"A">>), EntityPiece("mention", <<"!">>)>>),
      Pieces(<<EntityPiece("mention", <<"!">>), PlainPiece(<<"a">>)>>) }

\* the "from_id" values of the exported messages: the prefix and the id
\* behind it; a service message has none
ExportFromIds ==
    { [some |-> FALSE, prefix |-> "", id |-> ""],
      [some |-> TRUE, prefix |-> "user", id |-> "1"],
      [some |-> TRUE, prefix |-> "user", id |-> "2"],
      [some |-> TRUE, prefix |-> "channel", id |-> "3"],
      [some |-> TRUE, prefix |-> "chat", id |-> "4"] }

ExportMessages == [from_id : ExportFromIds, contents : ExportContents]

\* the chat export files: a group or a supergroup with up to MaxExport
\* messages
ChatExports ==
    [id : {1}, type_field : {"private_group", "private_supergroup"},
     messages : UNION {[1..k -> ExportMessages] : k \in 0..MaxExport}]

RECURSIVE PowerOfTenAbove(_)
\* the weight of the digit that "-100" gains when id.to_string() is
\* appended to it
PowerOfTenAbove(n) == IF n < 10 THEN 10 ELSE 10 * PowerOfTenAbove(n \div 10)

\* the retain closure of read_chat_export
HasKnownPrefix(message) ==
    /\ message.from_id.some
    /\ message.from_id.prefix \in {"user", "channel"}

\* read_chat_export: the chat id as the API gives it, the messages of
\* users and channels only, their from_id without the prefix
read_chat_export(file) ==
    LET kept == SelectSeq(file.messages, HasKnownPrefix)
    IN  [id |-> IF file.type_field = "private_group" THEN 0 - file.id
                ELSE 0 - (100 * PowerOfTenAbove(file.id) + file.id),
         messages |-> [i \in 1..Len(kept) |->
                          [from_id |-> kept[i].from_id.id,
                           contents |-> kept[i].contents]]]

\* the users get_chat_member knows as bots
BotAccounts == {"2"}

\* include that tests the kind of the contents only
include_accepts_commands(contents) ==
    IF contents.kind = "PlainText" THEN TRUE
    ELSE contents.pieces # <<>>

\* the include test of import_chat
include(contents) ==
    IF contents.kind = "PlainText" THEN TRUE
    ELSE IF contents.pieces # <<>>
         THEN IF contents.pieces[1].entity
              THEN contents.pieces[1].type_field # "bot_command"
              ELSE TRUE
         ELSE FALSE

\* the documents the chats collection can hold when an import starts: none,
\* or the one a handler wrote for a message of user 1
ImportStartDocuments ==
    { NoDocument,
      [some |-> TRUE,
       data |-> add_to_both_chains(EmptyMap, [from |-> "1", text |-> <<"A", "!">>])] }

InitImport ==
    /\ data = EmptyMap
    /\ meta = EmptyMap
    /\ fault = FALSE
    /\ debug_assertions \in BOOLEAN
    /\ nadds = 0
    /\ hist = NoHist
    /\ GenIdle
    /\ FnIdle
    /\ TasksIdle
    /\ \E d \in ImportStartDocuments : chats = [c \in ChatIds |-> d]
    /\ HandlersIdle
    /\ import = NoImport

\* read_chat_export fails: import_chat returns ReadError
ReadChatExportFails ==
    /\ import.pc = "idle"
    /\ import' = [import EXCEPT !.pc = "failed", !.error = "ReadError"]
    /\ UNCHANGED <<chats, prompts, sent, handlers, user_infos>>
    /\ UNCHANGED <<db, tasks, writes>>
    /\ UNCHANGED <<trainer_vars, gen_vars, fn_vars>>

\* import_chat up to the loop: the export is read and fixed, and
\* read_chat_data gives the stored document of the chat or None
ImportChat(file) ==
    /\ import.pc = "idle"
    /\ LET chat_export == read_chat_export(file)
       IN  import' = [import EXCEPT
                         !.pc = "loop",
                         !.chat_id = chat_export.id,
                         !.export = chat_export.messages,
                         !.at = 1,
                         !.snapshot = chats[chat_export.id],
                         !.chat_data = IF chats[chat_export.id].some
                                       THEN chats[chat_export.id].data
                                       ELSE EmptyMap]
    /\ UNCHANGED <<chats, prompts, sent, handlers, user_infos>>
    /\ UNCHANGED <<db, tasks, writes>>
    /\ UNCHANGED <<trainer_vars, gen_vars, fn_vars>>

\* read_chat_data returns Err: import_chat returns DbError
ImportReadChatDataFails ==
    /\ import.pc = "idle"
    /\ import' = [import EXCEPT !.pc = "failed", !.error = "DbError"]
    /\ UNCHANGED <<chats, prompts, sent, handlers, user_infos>>
    /\ UNCHANGED <<db, tasks, writes>>
    /\ UNCHANGED <<trainer_vars, gen_vars, fn_vars>>

\* one turn of the loop of import_chat; member_ok tells whether
\* get_chat_member answers when the sender is not in users_cache yet
ImportMessage(member_ok) ==
    /\ import.pc = "loop"
    /\ import.at <= Len(import.export)
    /\ LET message == import.export[import.at]
           from_id == message.from_id
           cached == from_id \in DOMAIN import.users_cache
           cache == IF cached THEN import.users_cache
                    ELSE MapPut(import.users_cache, from_id,
                                [some |-> member_ok,
                                 is_bot |-> member_ok /\ from_id \in BotAccounts])
           taken == /\ cache[from_id].some
                    /\ ~cache[from_id].is_bot
                    /\ include(message.contents)
           text == contents_to_string(message.contents)
       IN  /\ cached => member_ok
           /\ import' = [import EXCEPT
                  !.at = @ + 1,
                  !.users_cache = cache,
                  !.chat_data =
                      IF taken
                      THEN chat_data_add_message(
                               chat_data_add_message(@, from_id, text), ALL, text)
                      ELSE @,
                  !.calls =
                      IF taken
                      THEN @ \o << [user_id |-> from_id, text |-> text],
                                   [user_id |-> ALL, text |-> text] >>
                      ELSE @,
                  !.num_messages_imported = IF taken THEN @ + 1 ELSE @]
    /\ UNCHANGED <<chats, prompts, sent, handlers, user_infos>>
    /\ UNCHANGED <<db, tasks, writes>>
    /\ UNCHANGED <<trainer_vars, gen_vars, fn_vars>>

\* the write_chat_data of import_chat after the loop
ImportWriteChatData ==
    /\ import.pc = "loop"
    /\ import.at > Len(import.export)
    /\ chats' = [chats EXCEPT ![import.chat_id] =
                     [some |-> TRUE, data |-> import.chat_data]]
    /\ import' = [import EXCEPT !.pc = "done", !.writes = @ + 1]
    /\ UNCHANGED <<prompts, sent, handlers, user_infos>>
    /\ UNCHANGED <<db, tasks, writes>>
    /\ UNCHANGED <<trainer_vars, gen_vars, fn_vars>>

\* write_chat_data returns Err: import_chat returns DbError
ImportWriteChatDataFails ==
    /\ import.pc = "loop"
    /\ import.at > Len(import.export)
    /\ import' = [import EXCEPT !.pc = "failed", !.error = "DbError"]
    /\ UNCHANGED <<chats, prompts, sent, handlers, user_infos>>
    /\ UNCHANGED <<db, tasks, writes>>
    /\ UNCHANGED <<trainer_vars, gen_vars, fn_vars>>

NextImport ==
    \/ ReadChatExportFails
    \/ \E file \in ChatExports : ImportChat(file)
    \/ ImportReadChatDataFails
    \/ \E member_ok \in BOOLEAN : ImportMessage(member_ok)
    \/ ImportWriteChatData
    \/ ImportWriteChatDataFails

SpecImport == InitImport /\ [][NextImport]_vars

(***************************************************************************)
(* handle_message in full (src/src/markov_telegram_bot.rs): prompts,       *)
(* commands, replies to prompts and training, for the messages of the      *)
(* chats in ChatIds.                                                       *)
(***************************************************************************)
\* message.from.id of the senders
ChatUsers == {"1", "2"}

\* the members get_chat_administrators lists as Owner or Administrator
Administrators == {"1"}

\* message.from.username: user 1 has one, user 2 has none
username_of(user_id) ==
    IF user_id = "1" THEN [some |-> TRUE, value |-> <<"U", "1">>]
    ELSE [some |-> FALSE, value |-> <<>>]

YES_STRINGS ==
    { <<"y">>, <<"y", "e", "s">>, <<"y", "e">>, <<"y", "a">>,
      <<"y", "e", "a", "h">>, <<"y", "e", "a">>, <<"y", "a", "h">> }

\* the string literals handle_message compares command_text with
msg_literal == <<"m", "s", "g">>

deletemydata_literal ==
    <<"d", "e", "l", "e", "t", "e", "m", "y", "d", "a", "t", "a">>

deleteusermydata_literal ==
    <<"d", "e", "l", "e", "t", "e", "u", "s", "e", "r", "m", "y", "d", "a", "t", "a">>

deleteuserdata_literal ==
    <<"d", "e", "l", "e", "t", "e", "u", "s", "e", "r", "d", "a", "t", "a">>

\* Option<Prompt>: None
NoPrompt ==
    [some |-> FALSE, value |-> [message_id |-> 0, kind |-> "", user_id |-> ""]]

\* the handler of a message that has just been spawned
NewHandler(message) ==
    [pc |-> "start", message |-> message, route |-> "none",
     prompt |-> NoPrompt, new_prompt |-> NoPrompt.value,
     snapshot |-> NoDocument, chat_data |-> EmptyMap,
     reply |-> "", wrote |-> FALSE, removed |-> "", seen |-> 0]

\* a message of plain text, as a reply to the message reply_to if that is
\* not 0
TextMessage(chat, from, text, reply_to) ==
    [chat |-> chat, from |-> [some |-> TRUE, id |-> from],
     caption |-> [some |-> FALSE, value |-> <<>>],
     text |-> [some |-> TRUE, value |-> text], reply_to |-> reply_to,
     entities |-> <<>>]

\* a message without text: a photo with the caption 'a'
MediaMessage(chat, from) ==
    [chat |-> chat, from |-> [some |-> TRUE, id |-> from],
     caption |-> [some |-> TRUE, value |-> <<"a">>],
     text |-> [some |-> FALSE, value |-> <<>>], reply_to |-> 0,
     entities |-> <<>>]

\* a message that is the command '/' command
CommandMessage(chat, from, command) ==
    [chat |-> chat, from |-> [some |-> TRUE, id |-> from],
     caption |-> [some |-> FALSE, value |-> <<>>],
     text |-> [some |-> TRUE, value |-> <<"/">> \o command], reply_to |-> 0,
     entities |-> << [type_field |-> "BotCommand", offset |-> 0,
                      length |-> 1 + Len(command), user |-> ""] >>]

\* the command followed by the mention '@' username
CommandWithMention(chat, from, command, username) ==
    [chat |-> chat, from |-> [some |-> TRUE, id |-> from],
     caption |-> [some |-> FALSE, value |-> <<>>],
     text |-> [some |-> TRUE,
               value |-> <<"/">> \o command \o <<" ", "@">> \o username],
     reply_to |-> 0,
     entities |-> << [type_field |-> "BotCommand", offset |-> 0,
                      length |-> 1 + Len(command), user |-> ""],
                     [type_field |-> "Mention", offset |-> 2 + Len(command),
                      length |-> 1 + Len(username), user |-> ""] >>]

\* the command followed by a text mention of the user user_id
CommandWithTextMention(chat, from, command, user_id) ==
    [chat |-> chat, from |-> [some |-> TRUE, id |-> from],
     caption |-> [some |-> FALSE, value |-> <<>>],
     text |-> [some |-> TRUE, value |-> <<"/">> \o command \o <<" ", "B">>],
     reply_to |-> 0,
     entities |-> << [type_field |-> "BotCommand", offset |-> 0,
                      length |-> 1 + Len(command), user |-> ""],
                     [type_field |-> "TextMention", offset |-> 2 + Len(command),
                      length |-> 1, user |-> user_id] >>]

\* text.get((offset + 1)..(offset + length)) of an entity
entity_text(text, entity) ==
    IF entity.offset + entity.length <= Len(text)
    THEN [some |-> TRUE,
          value |-> SubSeq(text, entity.offset + 2, entity.offset + entity.length)]
    ELSE [some |-> FALSE, value |-> <<>>]

\* the branch of handle_message a command_text takes
command_route(command_text) ==
    IF command_text = msg_literal
       \/ starts_with(command_text, msg_literal \o <<"@">>)
    THEN "msg"
    ELSE IF command_text = deletemydata_literal
            \/ starts_with(command_text, deletemydata_literal \o <<"@">>)
    THEN "deletemydata"
    ELSE IF command_text = deleteusermydata_literal
            \/ starts_with(command_text, deleteuserdata_literal \o <<"@">>)
    THEN "deleteuserdata"
    ELSE "command"

\* the test for a leading command that passes known commands only
has_leading_command_if_known(message) ==
    /\ Len(message.entities) >= 1
    /\ message.entities[1].type_field = "BotCommand"
    /\ command_route(entity_text(message.text.value, message.entities[1]).value)
           # "command"

\* the first entity of the message is a bot command
has_leading_command(message) ==
    /\ Len(message.entities) >= 1
    /\ message.entities[1].type_field = "BotCommand"

\* add_prompt on the registry
add_prompt(registry, chat_id, user_id, prompt) ==
    LET with_chat == IF chat_id \in DOMAIN registry THEN registry
                     ELSE MapPut(registry, chat_id, EmptyMap)
    IN  MapPut(with_chat, chat_id, MapPut(with_chat[chat_id], user_id, prompt))

\* remove_prompt on the registry
remove_prompt(registry, chat_id, user_id) ==
    IF chat_id \in DOMAIN registry
    THEN MapPut(registry, chat_id, MapRemove(registry[chat_id], user_id))
    ELSE registry

\* original_prompt_for that does not compare the message ids
original_prompt_for_any_reply(registry, message) ==
    IF /\ message.reply_to # 0
       /\ message.chat \in DOMAIN registry
       /\ message.from.some
       /\ message.from.id \in DOMAIN registry[message.chat]
    THEN [some |-> TRUE, value |-> registry[message.chat][message.from.id]]
    ELSE NoPrompt

\* original_prompt_for: the prompt of the sender in the chat, if the
\* message replies to the question of that prompt
original_prompt_for(registry, message) ==
    IF /\ message.reply_to # 0
       /\ message.chat \in DOMAIN registry
       /\ message.from.some
       /\ message.from.id \in DOMAIN registry[message.chat]
       /\ registry[message.chat][message.from.id].message_id = message.reply_to
    THEN [some |-> TRUE, value |-> registry[message.chat][message.from.id]]
    ELSE NoPrompt

\* the YES_STRINGS test of handle_response that takes any text as a yes
is_affirmative_always(response) == TRUE

\* the YES_STRINGS test of handle_response
is_affirmative(response) ==
    to_lowercase(IF response.text.some THEN response.text.value ELSE <<>>)
        \in YES_STRINGS

\* the admin test of handle_delete_user_data_command_message that lets
\* every member pass
is_admin_everyone(user_id) == user_id \in ChatUsers

\* the admin test of handle_delete_user_data_command_message
is_admin(user_id) == user_id \in Administrators

\* get_user_mention and UserMention::user_id on the second entity; infos
\* is the user_infos collection and failed tells that find_one failed
mentioned_user_id(message, infos, failed) ==
    IF Len(message.entities) < 2 THEN [err |-> FALSE, some |-> FALSE, value |-> ""]
    ELSE LET entity == message.entities[2]
             name == entity_text(message.text.value, entity)
         IN  IF entity.type_field = "Mention"
             THEN IF ~name.some
                  THEN [err |-> FALSE, some |-> FALSE, value |-> ""]
                  ELSE IF failed
                  THEN [err |-> TRUE, some |-> FALSE, value |-> ""]
                  ELSE IF to_lowercase(name.value) \in DOMAIN infos
                  THEN [err |-> FALSE, some |-> TRUE,
                        value |-> infos[to_lowercase(name.value)]]
                  ELSE [err |-> FALSE, some |-> FALSE, value |-> ""]
             ELSE IF entity.type_field = "TextMention"
             THEN [err |-> FALSE, some |-> TRUE, value |-> entity.user]
             ELSE [err |-> FALSE, some |-> FALSE, value |-> ""]

\* remember_message_sender on the user_infos collection; stored tells
\* whether replace_one succeeded
remember_message_sender(infos, message, stored) ==
    LET username == username_of(message.from.id)
    IN  IF username.some /\ stored
        THEN MapPut(infos, to_lowercase(username.value), message.from.id)
        ELSE infos

\* the user whose chain a prompt is about, for the response given
prompt_user_id(prompt, response) ==
    IF prompt.kind = "DeleteMyData" THEN response.from.id ELSE prompt.user_id

\* the deletion of handle_response that leaves the chain of all users as
\* it is
delete_user_data_keeps_all(chat_data, user_id, dbg) ==
    [fault |-> FALSE, data |-> MapRemove(chat_data, user_id)]

\* the deletion of handle_response on the data of a ChatData that holds a
\* chain of the user: the chain is taken out of the chain of all users,
\* if there is one, and its entry is removed; a panic of
\* remove_markov_chain is a fault
delete_user_data(chat_data, user_id, dbg) ==
    LET removal == remove_markov_chain(chat_data[ALL], chat_data[user_id], dbg)
    IN  IF ALL \in DOMAIN chat_data /\ removal.fault
        THEN [fault |-> TRUE, data |-> EmptyMap]
        ELSE [fault |-> FALSE,
              data |-> MapRemove(
                           IF ALL \in DOMAIN chat_data
                           THEN MapPut(chat_data, ALL,
                                       [data |-> removal.data, meta |-> removal.meta])
                           ELSE chat_data,
                           user_id)]

\* the calls of the API and of find_one on user_infos that may fail in
\* the command handlers
ApiFailures == {"none", "get_chat_administrators", "user_id", "try_reply"}

\* run: the next update holds a message; its handler is spawned.  A reply
\* is a reply to one of the questions the bot has sent in the chat.
ReceiveMessage(message) ==
    /\ Len(handlers) < MaxHandlers
    /\ message.reply_to <= sent[message.chat]
    /\ handlers' = Append(handlers, NewHandler(message))
    /\ UNCHANGED <<chats, prompts, sent, user_infos, import>>
    /\ UNCHANGED <<db, tasks, writes>>
    /\ UNCHANGED <<trainer_vars, gen_vars, fn_vars>>

\* what handle_message does with a message up to the point where its
\* branch first touches the chats collection or the registry of prompts:
\* the record of the handler after it, the questions sent and user_infos.
\* The reply of the handler names the text it answers with; the text
\* "<an error occurred>" is "error", followed by the call that failed in
\* handle_delete_user_data_command_message
dispatch(h, stored, fails) ==
    LET message == h.message
        infos == IF message.from.some
                 THEN remember_message_sender(user_infos, message, stored)
                 ELSE user_infos
        chat == message.chat
        same == [handler |-> h, sent |-> sent, user_infos |-> infos]
        prompt == original_prompt_for(prompts, message)
        command_text == entity_text(message.text.value, message.entities[1])
        route == command_route(command_text.value)
        user_id == mentioned_user_id(message, infos, fails = "user_id")
        ask(kind, about) ==
            [same EXCEPT
                !.handler = [h EXCEPT !.pc = "add_prompt",
                                      !.route = route,
                                      !.reply = "question",
                                      !.new_prompt =
                                          [message_id |-> sent[chat] + 1,
                                           kind |-> kind, user_id |-> about]],
                !.sent = [sent EXCEPT ![chat] = @ + 1]]
        finish(r, reply) ==
            [same EXCEPT !.handler = [h EXCEPT !.pc = "done", !.route = r,
                                               !.reply = reply]]
    IN  IF ~message.from.some THEN finish("no_sender", "")
        ELSE IF ~message.text.some THEN finish("no_text", "")
        ELSE IF prompt.some
        THEN [same EXCEPT
                 !.handler = [h EXCEPT
                     !.route = "response",
                     !.prompt = prompt,
                     !.pc = IF is_affirmative(message) THEN "respond"
                            ELSE "remove_prompt",
                     !.reply = IF is_affirmative(message) THEN ""
                               ELSE "declined"]]
        ELSE IF has_leading_command(message)
        THEN IF ~command_text.some THEN finish("command", "")
             ELSE IF route = "msg" THEN finish("msg", "generated")
             ELSE IF route = "deletemydata"
             THEN IF fails = "try_reply" THEN finish(route, "")
                  ELSE ask("DeleteMyData", "")
             ELSE IF route = "deleteuserdata"
             THEN IF fails = "get_chat_administrators"
                  THEN finish(route, "error: get_chat_administrators")
                  ELSE IF ~is_admin(message.from.id) THEN finish(route, "not_admin")
                  ELSE IF user_id.err THEN finish(route, "error: user_id")
                  ELSE IF ~user_id.some THEN finish(route, "expected_mention")
                  ELSE IF fails = "try_reply" THEN finish(route, "error: try_reply")
                  ELSE ask("DeleteUserData", user_id.value)
             ELSE finish("command", "")
        ELSE [same EXCEPT !.handler = [h EXCEPT !.pc = "read", !.route = "train"]]

\* handle_message from its start: remember_message_sender, the test for a
\* reply to a prompt, the test for a command and the choice of the branch;
\* a command handler runs up to its add_prompt.  replace_one can fail only
\* for a sender with a username, and the calls of the command handlers only
\* for a command
Dispatch(i, stored, fails) ==
    /\ handlers[i].pc = "start"
    /\ ~stored => /\ handlers[i].message.from.some
                  /\ username_of(handlers[i].message.from.id).some
    /\ fails # "none" => has_leading_command(handlers[i].message)
    /\ LET d == dispatch(handlers[i], stored, fails)
       IN  /\ handlers' = [handlers EXCEPT ![i] = d.handler]
           /\ sent' = d.sent
           /\ user_infos' = d.user_infos
    /\ UNCHANGED <<chats, prompts, import>>
    /\ UNCHANGED <<db, tasks, writes>>
    /\ UNCHANGED <<trainer_vars, gen_vars, fn_vars>>

\* the add_prompt that ends handle_delete_my_data_command_message and
\* handle_delete_user_data_command_message
AddPrompt(i) ==
    /\ handlers[i].pc = "add_prompt"
    /\ prompts' = add_prompt(prompts, handlers[i].message.chat,
                             handlers[i].message.from.id, handlers[i].new_prompt)
    /\ handlers' = [handlers EXCEPT ![i].pc = "done"]
    /\ UNCHANGED <<chats, sent, user_infos, import>>
    /\ UNCHANGED <<db, tasks, writes>>
    /\ UNCHANGED <<trainer_vars, gen_vars, fn_vars>>

\* add_to_markov_chain up to the call of write_chat_data
AddToMarkovChain(i) ==
    /\ handlers[i].pc = "read"
    /\ LET message == handlers[i].message
           stored == chats[message.chat]
           chat_data == IF stored.some THEN stored.data ELSE EmptyMap
       IN  handlers' = [handlers EXCEPT
               ![i].pc = "write",
               ![i].snapshot = stored,
               ![i].chat_data =
                   add_to_both_chains(chat_data,
                                      [from |-> message.from.id,
                                       text |-> IF message.text.some
                                                THEN message.text.value
                                                ELSE message.caption.value])]
    /\ UNCHANGED <<chats, prompts, sent, user_infos, import>>
    /\ UNCHANGED <<db, tasks, writes>>
    /\ UNCHANGED <<trainer_vars, gen_vars, fn_vars>>

\* handle_response on an affirmative response, up to the call of
\* write_chat_data: the chain of the user is taken out of the chain of all
\* users and the entry of the user is removed, in memory; a panic of
\* remove_markov_chain ends the task
HandleResponse(i) ==
    /\ handlers[i].pc = "respond"
    /\ LET h == handlers[i]
           stored == chats[h.message.chat]
           user_id == prompt_user_id(h.prompt.value, h.message)
           deletion == delete_user_data(stored.data, user_id, debug_assertions)
       IN  IF ~stored.some \/ user_id \notin DOMAIN stored.data
           THEN handlers' = [handlers EXCEPT ![i].pc = "remove_prompt",
                                             ![i].snapshot = stored,
                                             ![i].reply = "no_data"]
           ELSE IF deletion.fault
           THEN handlers' = [handlers EXCEPT ![i].pc = "panicked",
                                             ![i].snapshot = stored]
           ELSE handlers' = [handlers EXCEPT
                   ![i].pc = "respond_write",
                   ![i].snapshot = stored,
                   ![i].removed = user_id,
                   ![i].chat_data = deletion.data]
    /\ UNCHANGED <<chats, prompts, sent, user_infos, import>>
    /\ UNCHANGED <<db, tasks, writes>>
    /\ UNCHANGED <<trainer_vars, gen_vars, fn_vars>>

\* read_chat_data returns Err: add_to_markov_chain returns it, and
\* handle_message answers a response with "<an error occurred>" and keeps
\* the prompt
StorageReadFails(i) ==
    /\ handlers[i].pc \in {"read", "respond"}
    /\ handlers' = [handlers EXCEPT ![i].pc = "done", ![i].reply = "error"]
    /\ UNCHANGED <<chats, prompts, sent, user_infos, import>>
    /\ UNCHANGED <<db, tasks, writes>>
    /\ UNCHANGED <<trainer_vars, gen_vars, fn_vars>>

\* write_chat_data of add_to_markov_chain and of handle_response: the
\* ChatData of the handler takes the place of the document of the chat
StorageWrite(i) ==
    /\ handlers[i].pc \in {"write", "respond_write"}
    /\ chats' = [chats EXCEPT ![handlers[i].message.chat] =
                     [some |-> TRUE, data |-> handlers[i].chat_data]]
    /\ handlers' = [handlers EXCEPT
           ![i].pc = IF handlers[i].pc = "write" THEN "done" ELSE "remove_prompt",
           ![i].reply = IF handlers[i].pc = "write" THEN "" ELSE "deleted",
           ![i].wrote = TRUE,
           ![i].seen = Len(handlers)]
    /\ UNCHANGED <<prompts, sent, user_infos, import>>
    /\ UNCHANGED <<db, tasks, writes>>
    /\ UNCHANGED <<trainer_vars, gen_vars, fn_vars>>

\* write_chat_data returns Err: the document stays, and a response is
\* answered with "<an error occurred>" and keeps its prompt
StorageWriteFails(i) ==
    /\ handlers[i].pc \in {"write", "respond_write"}
    /\ handlers' = [handlers EXCEPT ![i].pc = "done", ![i].reply = "error"]
    /\ UNCHANGED <<chats, prompts, sent, user_infos, import>>
    /\ UNCHANGED <<db, tasks, writes>>
    /\ UNCHANGED <<trainer_vars, gen_vars, fn_vars>>

\* handle_message after handle_response returned Ok: remove_prompt and the
\* reply
RemovePrompt(i) ==
    /\ handlers[i].pc = "remove_prompt"
    /\ prompts' = remove_prompt(prompts, handlers[i].message.chat,
                                handlers[i].message.from.id)
    /\ handlers' = [handlers EXCEPT ![i].pc = "done"]
    /\ UNCHANGED <<chats, sent, user_infos, import>>
    /\ UNCHANGED <<db, tasks, writes>>
    /\ UNCHANGED <<trainer_vars, gen_vars, fn_vars>>

(***************************************************************************)
(* The handlers of the messages of one chat, over a document that earlier  *)
(* handlers may have written.                                              *)
(***************************************************************************)
\* the chat of the messages
TheChat == 0 - 1

RECURSIVE TrainedData(_)
\* the data of the document after add_to_markov_chain on each message of a
\* sequence in turn
TrainedData(messages) ==
    IF messages = <<>> THEN EmptyMap
    ELSE add_to_both_chains(TrainedData(SubSeq(messages, 1, Len(messages) - 1)),
                            messages[Len(messages)])

\* the documents of the chat when the first message arrives: none, one
\* with the chains of two users who sent the same text, one with a chain
\* of user 2 only
ChatStartDocuments ==
    { NoDocument,
      [some |-> TRUE,
       data |-> TrainedData(<< [from |-> "1", text |-> <<"$", "a">>],
                               [from |-> "2", text |-> <<"$", "a">>] >>)],
      [some |-> TRUE,
       data |-> TrainedData(<< [from |-> "2", text |-> <<"a">>] >>)] }

\* the messages of the chat: texts, a message without text, the commands
\* /deletemydata of user 2, /deleteuserdata@b of the admin with a text
\* mention of user 2, an unknown command, and replies to the first
\* question of the bot
ChatMessages ==
    { TextMessage(TheChat, "1", <<"a">>, 0),
      TextMessage(TheChat, "2", <<"$", "a">>, 0),
      MediaMessage(TheChat, "1"),
      CommandMessage(TheChat, "2", deletemydata_literal),
      CommandWithTextMention(TheChat, "1", deleteuserdata_literal \o <<"@", "b">>, "2"),
      CommandMessage(TheChat, "1", <<"s">>),
      TextMessage(TheChat, "2", <<"Y">>, 1),
      TextMessage(TheChat, "1", <<"Y">>, 1),
      TextMessage(TheChat, "2", <<"n">>, 1) }

InitChat ==
    /\ data = EmptyMap
    /\ meta = EmptyMap
    /\ fault = FALSE
    /\ debug_assertions \in BOOLEAN
    /\ nadds = 0
    /\ hist = NoHist
    /\ GenIdle
    /\ FnIdle
    /\ TasksIdle
    /\ \E d \in ChatStartDocuments :
          chats = [c \in ChatIds |-> IF c = TheChat THEN d ELSE NoDocument]
    /\ HandlersIdle
    /\ import = NoImport

NextChat ==
    \/ \E message \in ChatMessages : ReceiveMessage(message)
    \/ \E i \in 1..Len(handlers), stored \in BOOLEAN, fails \in ApiFailures :
          Dispatch(i, stored, fails)
    \/ \E i \in 1..Len(handlers) : AddPrompt(i)
    \/ \E i \in 1..Len(handlers) : AddToMarkovChain(i)
    \/ \E i \in 1..Len(handlers) : HandleResponse(i)
    \/ \E i \in 1..Len(handlers) : StorageReadFails(i)
    \/ \E i \in 1..Len(handlers) : StorageWrite(i)
    \/ \E i \in 1..Len(handlers) : StorageWriteFails(i)
    \/ \E i \in 1..Len(handlers) : RemovePrompt(i)

SpecChat == InitChat /\ [][NextChat]_vars

(***************************************************************************)
(* The handlers of the commands and replies of two users in two chats.     *)
(***************************************************************************)
\* the second chat
OtherChat == 0 - 1001

\* the commands and replies: /deletemydata of user 1 in either chat and
\* with the name of the bot, /deleteuserdata with and without the name of
\* the bot, of the admin and of user 2, with a text mention, a mention by
\* username and no mention, /msg, and replies of either user in either
\* chat to the first and to the second question of the bot
PromptMessages ==
    { CommandMessage(TheChat, "1", deletemydata_literal),
      CommandMessage(OtherChat, "1", deletemydata_literal),
      CommandMessage(TheChat, "1", deletemydata_literal \o <<"@", "b">>),
      CommandWithTextMention(TheChat, "1", deleteuserdata_literal \o <<"@", "b">>, "2"),
      CommandWithTextMention(TheChat, "1", deleteuserdata_literal, "2"),
      CommandWithMention(TheChat, "2", deleteuserdata_literal \o <<"@", "b">>, <<"U", "1">>),
      CommandWithMention(TheChat, "1", deleteuserdata_literal \o <<"@", "b">>, <<"U", "1">>),
      CommandMessage(TheChat, "1", deleteuserdata_literal \o <<"@", "b">>),
      CommandMessage(TheChat, "1", msg_literal),
      TextMessage(TheChat, "1", <<"n">>, 1),
      TextMessage(TheChat, "1", <<"Y">>, 1),
      TextMessage(TheChat, "2", <<"n">>, 1),
      TextMessage(OtherChat, "1", <<"n">>, 1),
      TextMessage(TheChat, "1", <<"n">>, 2) }

\* the documents of the first chat when the first message arrives: none,
\* or one with the chains of two users who sent the same text
PromptStartDocuments ==
    { NoDocument,
      [some |-> TRUE,
       data |-> TrainedData(<< [from |-> "1", text |-> <<"a">>],
                               [from |-> "2", text |-> <<"a">>] >>)] }

InitPrompt ==
    /\ data = EmptyMap
    /\ meta = EmptyMap
    /\ fault = FALSE
    /\ debug_assertions \in BOOLEAN
    /\ nadds = 0
    /\ hist = NoHist
    /\ GenIdle
    /\ FnIdle
    /\ TasksIdle
    /\ \E d \in PromptStartDocuments :
          chats = [c \in ChatIds |-> IF c = TheChat THEN d ELSE NoDocument]
    /\ HandlersIdle
    /\ import = NoImport

NextPrompt ==
    \/ \E message \in PromptMessages : ReceiveMessage(message)
    \/ \E i \in 1..Len(handlers), stored \in BOOLEAN, fails \in ApiFailures :
          Dispatch(i, stored, fails)
    \/ \E i \in 1..Len(handlers) : AddPrompt(i)
    \/ \E i \in 1..Len(handlers) : AddToMarkovChain(i)
    \/ \E i \in 1..Len(handlers) : HandleResponse(i)
    \/ \E i \in 1..Len(handlers) : StorageReadFails(i)
    \/ \E i \in 1..Len(handlers) : StorageWrite(i)
    \/ \E i \in 1..Len(handlers) : StorageWriteFails(i)
    \/ \E i \in 1..Len(handlers) : RemovePrompt(i)


SpecPrompt == InitPrompt /\ [][NextPrompt]_vars

(***************************************************************************)
(* The writers of the document of one chat together: the handlers of       *)
(* texts, of a /deletemydata command and of the answer to its question,    *)
(* and a run of import_chat in another process.                            *)
(***************************************************************************)
\* the messages of the chat: a text of user 2, /deletemydata of user 2
\* and the yes of user 2 to the first question
StoreMessages ==
    { TextMessage(TheChat, "2", <<"$", "a">>, 0),
      CommandMessage(TheChat, "2", deletemydata_literal),
      TextMessage(TheChat, "2", <<"Y">>, 1) }

\* the export files of the chat: one to MaxExport messages, each the same
\* text of user 3 in two pieces
StoreExports ==
    [id : {1}, type_field : {"private_group"},
     messages : UNION {[1..k ->
                          { [from_id |-> [some |-> TRUE, prefix |-> "user", id |-> "3"],
                             contents |-> Pieces(<<PlainPiece(<<"A">>),
                                                   EntityPiece("mention", <<"!">>)>>)] }]
                       : k \in 1..MaxExport}]

\* the chat holds texts of both users that share their contexts
InitStore ==
    /\ data = EmptyMap
    /\ meta = EmptyMap
    /\ fault = FALSE
    /\ debug_assertions \in BOOLEAN
    /\ nadds = 0
    /\ hist = NoHist
    /\ GenIdle
    /\ FnIdle
    /\ TasksIdle
    /\ HandlersIdle
    /\ import = NoImport
    /\ chats = [c \in ChatIds |->
                    IF c = TheChat
                    THEN [some |-> TRUE,
                          data |-> TrainedData(<<[from |-> "1", text |-> <<"$", "a">>],
                                                 [from |-> "2", text |-> <<"$", "a">>]>>)]
                    ELSE NoDocument]

NextStore ==
    \/ \E message \in StoreMessages : ReceiveMessage(message)
    \/ \E i \in 1..Len(handlers), stored \in BOOLEAN, fails \in ApiFailures :
          Dispatch(i, stored, fails)
    \/ \E i \in 1..Len(handlers) : AddPrompt(i)
    \/ \E i \in 1..Len(handlers) : AddToMarkovChain(i)
    \/ \E i \in 1..Len(handlers) : HandleResponse(i)
    \/ \E i \in 1..Len(handlers) : StorageReadFails(i)
    \/ \E i \in 1..Len(handlers) : StorageWrite(i)
    \/ \E i \in 1..Len(handlers) : StorageWriteFails(i)
    \/ \E i \in 1..Len(handlers) : RemovePrompt(i)
    \/ ReadChatExportFails
    \/ \E file \in StoreExports : ImportChat(file)
    \/ ImportReadChatDataFails
    \/ \E member_ok \in BOOLEAN : ImportMessage(member_ok)
    \/ ImportWriteChatData
    \/ ImportWriteChatDataFails

SpecStore == InitStore /\ [][NextStore]_vars

(***************************************************************************)
(* Trainer claims.                                                         *)
(***************************************************************************)
\* the last call was remove_markov_chain and it returned
Removed == hist.op \in {"remove", "undo"} /\ ~fault

\* the count of (key, third) in a chain's data, 0 when absent
CountOf(chain, key, third) ==
    IF key \in DOMAIN chain.data /\ third \in DOMAIN chain.data[key]
    THEN chain.data[key][third] ELSE 0

\* the second token of the context a data key stands for
SecondOf(key) == SubSeq(key, FindSpace(key) + 1, Len(key))

\* the two normalizations of a token: lower-cased, and lower-cased with the
\* leading and trailing non-alphanumeric characters trimmed
Normalizations(b) == {to_lowercase(b), trim_matches(to_lowercase(b))}

\* C1: training on a text and then removing the fresh chain trained only on
\* that text leaves data and meta equal to what they were before the training
C1_TrainUndoRoundTrip ==
    hist.op = "undo" => /\ ~fault
                        /\ data = hist.base.data
                        /\ meta = hist.base.meta

\* C2: remove_markov_chain(other) completes without a fault for every pair
\* of chains built by add_message
C2_RemoveIsTotal == hist.op \in {"remove", "undo"} => ~fault

\* C3: every context key of data maps to a non-empty distribution whose
\* counts are all at least 1; a returned remove_markov_chain has subtracted
\* the other chain's counts, dropping every entry whose result is <= 0
C3_ContextTableInvariant ==
    /\ \A k \in DOMAIN data :
          /\ DOMAIN data[k] # {}
          /\ \A t \in DOMAIN data[k] : data[k][t] >= 1
    /\ Removed =>
          \A k \in DOMAIN hist.pre.data : \A t \in DOMAIN hist.pre.data[k] :
              LET n == hist.pre.data[k][t] - CountOf(hist.other, k, t)
              IN  IF n > 0
                  THEN CountOf(Chain, k, t) = n
                  ELSE CountOf(Chain, k, t) = 0

\* a returned remove_markov_chain has emptied a distribution and removed its
\* context key, other contexts staying
C3_Witness ==
    /\ Removed
    /\ DOMAIN data # {}
    /\ \E k \in DOMAIN hist.pre.data : k \notin DOMAIN data

\* C4: every context key of data is registered in meta under each non-empty
\* normalization (in its stored, escaped form) of the context's second token,
\* and no meta entry holds an empty set
C4_SeedIndexComplete ==
    /\ \A k \in DOMAIN data :
          \A n \in Normalizations(SecondOf(k)) \ {<<>>} :
              /\ encode_db_field_name(n) \in DOMAIN meta
              /\ k \in meta[encode_db_field_name(n)]
    /\ \A n \in DOMAIN meta : meta[n] # {}

\* a returned remove_markov_chain has pruned a meta entry, and data still
\* holds a context whose second token has two distinct normalizations
C4_Witness ==
    /\ Removed
    /\ \E n \in DOMAIN hist.pre.meta : n \notin DOMAIN meta
    /\ \E k \in DOMAIN data :
          /\ Cardinality(Normalizations(SecondOf(k))) = 2
          /\ <<>> \notin Normalizations(SecondOf(k))

\* C5: every context key held in a set of meta is a key of data, so the
\* lookup of a seeded start candidate's distribution in generate never fails
C5_SeedIndexSound ==
    /\ \A n \in DOMAIN meta : \A k \in meta[n] : k \in DOMAIN data
    /\ \A w \in Seeds :
          generate_starts(Chain, SomeSeed(w), NoRequirement).kind # "panic"

\* a returned remove_markov_chain has removed a context that meta held, and
\* meta still holds the candidates of a seed
C5_Witness ==
    /\ Removed
    /\ \E n \in DOMAIN hist.pre.meta : \E k \in hist.pre.meta[n] : k \notin DOMAIN data
    /\ \E w \in Seeds :
          generate_starts(Chain, SomeSeed(w), NoRequirement).kind = "starts"

(***************************************************************************)
(* Generator claims.                                                       *)
(***************************************************************************)
\* n words satisfy the length requirement
Satisfies(lr, n) ==
    \/ lr.comparison_operator = "<"  /\ n < lr.value
    \/ lr.comparison_operator = "<=" /\ n <= lr.value
    \/ lr.comparison_operator = "="  /\ n = lr.value
    \/ lr.comparison_operator = ">"  /\ n > lr.value
    \/ lr.comparison_operator = ">=" /\ n >= lr.value

\* the length requirement is one that some length can satisfy
RequirementValid(lr) ==
    IF lr.comparison_operator \in {"<", ">="} THEN lr.value > 1 ELSE lr.value > 0

\* generate has returned
Returned == gen_pc = "done"

\* lengths are counted up to LengthCap: a length above every value a
\* requirement can have satisfies the requirements that any greater length does
LengthCap == MaxValue + 1

\* the contexts that follow a context in data, each with the number of
\* words emitted when it is reached
NextContexts(node) ==
    LET pair == node[1]
        key == pair_to_string(pair)
        n == IF pair[2] # <<>> /\ node[2] < LengthCap THEN node[2] + 1 ELSE node[2]
    IN  IF at_path_end(pair) \/ key \notin DOMAIN data THEN {}
        ELSE {<< <<encode_db_field_name(pair[2]), decode_db_field_name(t)>>, n >> :
                 t \in DOMAIN data[key]}

RECURSIVE ReachableFrom(_, _)
ReachableFrom(frontier, seen) ==
    IF frontier = {} THEN seen
    ELSE LET new == (UNION {NextContexts(node) : node \in frontier}) \ seen
         IN  ReachableFrom(new, seen \cup new)

\* some path of the chain from the start context to an end-of-message
\* context has a number of words that satisfies the length requirement
Feasible(start) ==
    \E node \in ReachableFrom({<<start, 0>>}, {<<start, 0>>}) :
        /\ at_path_end(node[1])
        /\ length_requirement.some => Satisfies(length_requirement, node[2])

\* the candidate starts of the call: the initial context when unseeded, the
\* contexts registered in meta for the lower-cased seed when seeded
Candidates ==
    IF ~seed.some THEN {<< <<>>, <<>> >>}
    ELSE LET n == encode_db_field_name(to_lowercase(seed.word))
         IN  IF n \in DOMAIN meta THEN {string_to_pair(k) : k \in meta[n]} ELSE {}

\* C6: the words of an Ok result satisfy the length requirement given
C6_LengthSound ==
    Returned /\ result.kind = "Ok" /\ length_requirement.some
        => Satisfies(length_requirement, Len(result.words))

\* a seeded call with a length requirement has returned words after the
\* search from the first start drawn had failed
C6_Witness ==
    /\ Returned /\ result.kind = "Ok"
    /\ length_requirement.some /\ seed.some
    /\ Len(drawn) >= 2
    /\ Len(result.words) >= 1

\* C7: a call that gets to the search returns CannotMeetLengthRequirement
\* if no candidate start has a path to an end-of-message context that
\* satisfies the requirement, and Ok otherwise
C7_InfeasibilityReported ==
    Returned /\ result.kind \in {"Ok", "CannotMeetLengthRequirement"}
        => (result.kind = "CannotMeetLengthRequirement"
               <=> ~ \E start \in Candidates : Feasible(start))

\* '=2' on the chain trained on one message of three words is reported as
\* CannotMeetLengthRequirement
C7_Witness ==
    /\ Returned /\ result.kind = "CannotMeetLengthRequirement"
    /\ Chain = add_message(EmptyChain, <<"a", " ", "$", "A", "!", " ", "a">>)
    /\ ~seed.some
    /\ length_requirement = SomeRequirement("=", 2)

\* C8: every call of generate returns a result; it never stops without one
C8_SearchTerminates == gen_pc # "crashed"

\* C9: on a chain with empty data generate returns Empty whatever its
\* arguments; on a non-empty chain an invalid length requirement gives
\* LengthRequirementInvalid whatever the seed; NoSuchSeed and
\* CannotMeetLengthRequirement come only after both checks have passed
C9_ErrorPrecedence ==
    gen_pc # "idle" =>
        /\ data = EmptyMap => Returned /\ result.kind = "Empty"
        /\ (data # EmptyMap /\ length_requirement.some
               /\ ~RequirementValid(length_requirement))
              => Returned /\ result.kind = "LengthRequirementInvalid"
        /\ (Returned /\ result.kind \in {"NoSuchSeed", "CannotMeetLengthRequirement"})
              => /\ data # EmptyMap
                 /\ length_requirement.some => RequirementValid(length_requirement)

\* generate on the empty chain, with a seed and an invalid requirement, has
\* returned Empty
C9_Witness ==
    /\ Returned /\ result.kind = "Empty"
    /\ data = EmptyMap
    /\ seed.some
    /\ length_requirement.some /\ ~RequirementValid(length_requirement)

\* the call has passed the checks of the chain and of the length requirement
PassedChecks ==
    /\ gen_pc # "idle"
    /\ data # EmptyMap
    /\ length_requirement.some => RequirementValid(length_requirement)

TrainedTokens == {SecondOf(k) : k \in DOMAIN data} \ {<<>>}

\* the trained tokens one of whose normalizations is the lower-cased word
MatchingTokens(word) ==
    {t \in TrainedTokens : to_lowercase(word) \in Normalizations(t)}

TrainedWords == split_whitespace(hist.text)

\* the positions of the trained message that hold the word
PositionsOf(word) == {i \in 1..Len(TrainedWords) : TrainedWords[i] = word}

C13_UndoCountExact ==
    hist.op \in {"remove", "undo"} =>
        \A m \in Texts, k \in 2..MaxAdds, j \in 1..MaxOther :
            (j < k /\ hist.pre = TrainRepeated(m, k)
                   /\ hist.other = TrainRepeated(m, j))
                => /\ ~fault
                   /\ Chain = TrainRepeated(m, k - j)

\* the tokens of a message between two boundary tokens on each side
Padded(words) == << <<>>, <<>> >> \o words \o << <<>>, <<>> >>

\* the stored keys of the contexts of the windows of a message
WindowKeys(words) ==
    {pair_to_string(<<Padded(words)[i], Padded(words)[i + 1]>>) :
        i \in 1..(Len(words) + 2)}

\* the number of windows of a message with context key k and successor t
WindowCount(words, k, t) ==
    Cardinality({i \in 1..(Len(words) + 2) :
                    /\ pair_to_string(<<Padded(words)[i], Padded(words)[i + 1]>>) = k
                    /\ encode_db_field_name(Padded(words)[i + 2]) = t})

RECURSIVE SumCounts(_)
\* the sum of all counts of a data map
SumCounts(data_) ==
    IF DOMAIN data_ = {} THEN 0
    ELSE LET k == CHOOSE x \in DOMAIN data_ : TRUE
         IN  SumValues(data_[k]) + SumCounts(MapRemove(data_, k))

\* the set a meta map holds for a seed, empty when it has no entry
MetaOf(chain, n) == IF n \in DOMAIN chain.meta THEN chain.meta[n] ELSE {}

\* C14: add_message on a text of n >= 1 tokens adds n + 2 to the counts, one
\* for each window of the padded token sequence, registers each window's
\* context in meta under the non-empty normalizations of its second token
\* and nothing else, so no context whose second token is empty; on a text
\* without tokens it changes neither data nor meta
C14_AddMessageWindows ==
    hist.op = "add" =>
        LET words == split_whitespace(hist.text)
            succs == UNION ({DOMAIN data[k] : k \in DOMAIN data}
                            \cup {DOMAIN hist.pre.data[k] : k \in DOMAIN hist.pre.data})
        IN  IF words = <<>> THEN Chain = hist.pre
            ELSE /\ SumCounts(data) = SumCounts(hist.pre.data) + Len(words) + 2
                 /\ DOMAIN data = DOMAIN hist.pre.data \cup WindowKeys(words)
                 /\ \A k \in DOMAIN data : \A t \in succs :
                       CountOf(Chain, k, t)
                           = CountOf(hist.pre, k, t) + WindowCount(words, k, t)
                 /\ \A n \in DOMAIN meta \cup DOMAIN hist.pre.meta :
                       MetaOf(Chain, n) = MetaOf(hist.pre, n) \cup
                           {k \in WindowKeys(words) :
                               \E b \in Normalizations(SecondOf(k)) \ {<<>>} :
                                   encode_db_field_name(b) = n}
                 /\ \A n \in DOMAIN meta : \A k \in meta[n] : SecondOf(k) # <<>>

\* add_message on a text of two tokens has raised a count that was there
\* before and has added a context that was not
C14_Witness ==
    /\ hist.op = "add"
    /\ Len(split_whitespace(hist.text)) = 2
    /\ \E k \in DOMAIN hist.pre.data : \E t \in DOMAIN hist.pre.data[k] :
          data[k][t] = hist.pre.data[k][t] + 1
    /\ \E k \in DOMAIN data : k \notin DOMAIN hist.pre.data

(***************************************************************************)
(* Claims about the free functions and LengthRequirement.                  *)
(***************************************************************************)
BeginsWith(s, prefix) ==
    Len(s) >= Len(prefix) /\ SubSeq(s, 1, Len(prefix)) = prefix

\* C15: encode_db_field_name prepends one backslash to a string that begins
\* with '$' and returns any other string as it is; decode_db_field_name
\* returns a string that does not begin with '\$' as it is, and returns t
\* for the encoding of every t that does not begin with a backslash
C15_FieldCodecRoundTrip ==
    /\ call.fn = "encode_db_field_name" =>
          call.ret = IF BeginsWith(call.arg, <<"$">>)
                     THEN <<"\\">> \o call.arg ELSE call.arg
    /\ call.fn = "decode_db_field_name" =>
          /\ ~BeginsWith(call.arg, <<"\\", "$">>) => call.ret = call.arg
          /\ \A t \in FieldStrings :
                (~BeginsWith(t, <<"\\">>) /\ call.arg = encode_db_field_name(t))
                    => call.ret = t

\* decode_db_field_name has been applied to the encoding of '$a' and has
\* returned '$a'
C15_Witness ==
    /\ call.fn = "decode_db_field_name"
    /\ call.arg = encode_db_field_name(<<"$", "a">>)
    /\ call.arg # <<"$", "a">>
    /\ call.ret = <<"$", "a">>

\* C16: no key of data, no successor key of a distribution and no key of
\* meta begins with '$'
C16_NoDollarFieldNames ==
    /\ \A k \in DOMAIN data :
          /\ ~BeginsWith(k, <<"$">>)
          /\ \A t \in DOMAIN data[k] : ~BeginsWith(t, <<"$">>)
    /\ \A n \in DOMAIN meta : ~BeginsWith(n, <<"$">>)

\* after a remove_markov_chain that returned and lowered counts the chain
\* holds a context whose first token begins with '$', one whose second
\* token does, a successor that does and a seed that does, each stored
\* escaped where it leads
C16_Witness ==
    /\ Removed
    /\ Chain # hist.pre
    /\ \E k \in DOMAIN data : BeginsWith(k, <<"\\", "$">>)
    /\ \E k \in DOMAIN data : BeginsWith(SecondOf(k), <<"$">>)
    /\ \E k \in DOMAIN data : \E t \in DOMAIN data[k] : BeginsWith(t, <<"\\", "$">>)
    /\ \E n \in DOMAIN meta : BeginsWith(n, <<"\\", "$">>)

\* lengths n >= 1 of type i32 among which one satisfies the requirement if
\* any i32 n >= 1 does: the least one, the value and the value plus one
CandidateLengths(lr) ==
    {n \in {1, lr.value}
           \cup (IF lr.value < I32Max THEN {lr.value + 1} ELSE {}) : n >= 1}

\* the requirements the claim calls valid
ValidByTable(lr) ==
    \/ lr.comparison_operator = "<"  /\ lr.value > 1
    \/ lr.comparison_operator = "<=" /\ lr.value > 0
    \/ lr.comparison_operator = "="  /\ lr.value > 0
    \/ lr.comparison_operator = ">"  /\ lr.value > 0
    \/ lr.comparison_operator = ">=" /\ lr.value > 1

\* C17: is_valid returns true exactly for '<' with value > 1, '<=', '=' and
\* '>' with value > 0 and '>=' with value > 1, and every requirement it
\* accepts is satisfied by some length n >= 1
C17_IsValidAcceptsSatisfiable ==
    call.fn = "is_valid" =>
        /\ call.ret = ValidByTable(call.arg)
        /\ call.ret => \E n \in CandidateLengths(call.arg) :
                           is_satisfied_by(call.arg, n)

(***************************************************************************)
(* Claims about the order of the draws.                                    *)
(***************************************************************************)
\* the elements of a sequence
Range(q) == {q[i] : i \in 1..Len(q)}

\* generate has got to its while loop
InStartLoop ==
    \/ gen_pc \in {"starts", "search"}
    \/ Returned /\ result.kind \in {"Ok", "CannotMeetLengthRequirement"}

\* C18: for every context whose successors the search enumerates, every
\* vector get_connections_in_weighted_random_order can return holds each
\* successor of the context once and nothing else, and the pairs still to
\* be tried are the rest of such a vector; the start loop draws candidate
\* starts only, none twice, and has drawn them all when generate returns
\* CannotMeetLengthRequirement
C18_ExhaustiveDraw ==
    /\ \A i \in 1..Len(stack) :
          LET pair == stack[i].start
              key == pair_to_string(pair)
              vectors == get_connections_in_weighted_random_order(Chain, pair)
          IN  /\ key \in DOMAIN data
              /\ \A q \in vectors :
                    /\ Len(q) = Cardinality(DOMAIN data[key])
                    /\ Range(q) = {<<encode_db_field_name(pair[2]),
                                      decode_db_field_name(t)>> : t \in DOMAIN data[key]}
              /\ \E q \in vectors : \E j \in 1..(Len(q) + 1) :
                    stack[i].queue = SubSeq(q, j, Len(q))
    /\ InStartLoop =>
          /\ \A i, j \in 1..Len(drawn) : drawn[i] = drawn[j] => i = j
          /\ Range(drawn) \subseteq Candidates
          /\ DOMAIN starts = Candidates \ Range(drawn)
    /\ (Returned /\ result.kind = "CannotMeetLengthRequirement")
          => Range(drawn) = Candidates

\* a seeded call with three candidate starts has returned
\* CannotMeetLengthRequirement after drawing all three
C18_Witness ==
    /\ Returned /\ result.kind = "CannotMeetLengthRequirement"
    /\ seed.some
    /\ Len(drawn) = 3
    /\ Cardinality(Candidates) = 3

(***************************************************************************)
(* Claims about the bot.                                                   *)
(***************************************************************************)
\* the number of messages a chain was trained on: the count of the initial
\* context
MessagesIn(chain) ==
    IF pair_to_string(<< <<>>, <<>> >>) \in DOMAIN chain.data
    THEN SumValues(chain.data[pair_to_string(<< <<>>, <<>> >>)]) ELSE 0

\* C19: a handler that has read the document can always write it back,
\* whatever other handlers have written since, and after the write the
\* stored document is the one the last writer read with its own message
\* added, so it lacks every message written between that read and the write
C19_LostUpdate ==
    /\ \A i \in 1..Len(tasks) :
          tasks[i].pc = "write" => ENABLED WriteChatData(i)
    /\ writes # <<>> =>
          LET last == tasks[writes[Len(writes)]]
          IN  /\ db.some
              /\ db.data = add_to_both_chains(
                               IF last.snapshot.some THEN last.snapshot.data
                               ELSE EmptyMap,
                               last.message)

\* two handlers of the chat have both written the document with success,
\* and the stored chain of all users holds one message only
C19_Witness ==
    /\ Len(tasks) = 2
    /\ \A i \in 1..2 : tasks[i].pc = "done" /\ tasks[i].result = "Ok"
    /\ Len(writes) = 2
    /\ db.some
    /\ MessagesIn(db.data[ALL]) = 1

BeginsWithBotCommand(contents) ==
    /\ contents.kind = "Pieces"
    /\ Len(contents.pieces) >= 1
    /\ contents.pieces[1].entity
    /\ contents.pieces[1].type_field = "bot_command"

\* the message counts for the import: its sender was resolved to a user
\* that is not a bot, and its contents neither begin with a command nor
\* are an empty list of pieces
Qualifies(message) ==
    /\ message.from_id \in DOMAIN import.users_cache
    /\ import.users_cache[message.from_id].some
    /\ message.from_id \notin BotAccounts
    /\ ~BeginsWithBotCommand(message.contents)
    /\ message.contents # Pieces(<<>>)

RECURSIVE ExpectedCalls(_)
\* the add_message calls owed to a sequence of export messages: for each
\* message that qualifies, in order, one on the chain of the sender and
\* one on the chain of all users
ExpectedCalls(messages) ==
    IF messages = <<>> THEN <<>>
    ELSE LET message == messages[Len(messages)]
         IN  ExpectedCalls(SubSeq(messages, 1, Len(messages) - 1)) \o
             (IF Qualifies(message)
              THEN << [user_id |-> message.from_id,
                       text |-> contents_to_string(message.contents)],
                      [user_id |-> ALL,
                       text |-> contents_to_string(message.contents)] >>
              ELSE <<>>)

RECURSIVE ApplyCalls(_, _)
\* the data of a ChatData after a sequence of add_message calls
ApplyCalls(chat_data, calls) ==
    IF calls = <<>> THEN chat_data
    ELSE LET c == calls[Len(calls)]
             before == ApplyCalls(chat_data, SubSeq(calls, 1, Len(calls) - 1))
         IN  IF c.user_id \in DOMAIN before
             THEN MapPut(before, c.user_id, add_message(before[c.user_id], c.text))
             ELSE MapPut(before, c.user_id, add_message(EmptyChain, c.text))

\* C21: at every point of an import the add_message calls made so far are
\* exactly those owed to the messages processed so far, in export order:
\* one on the sender's chain and one on the chain of all users for each
\* message of a resolved sender that is not a bot whose contents neither
\* begin with a bot_command entity nor are an empty list of pieces, and
\* none for any other message; the ChatData held is the document read
\* with these calls applied; the stored document stays as read until the
\* loop has ended and is then written once, with the ChatData held
C21_ImportAppliesQualifyingMessagesOnce ==
    import.pc \in {"loop", "done"} =>
        LET done_messages == SubSeq(import.export, 1, import.at - 1)
            start == IF import.snapshot.some THEN import.snapshot.data
                     ELSE EmptyMap
        IN  /\ import.calls = ExpectedCalls(done_messages)
            /\ import.chat_data = ApplyCalls(start, import.calls)
            /\ import.num_messages_imported * 2 = Len(import.calls)
            /\ import.pc = "loop" =>
                   /\ import.writes = 0
                   /\ chats[import.chat_id] = import.snapshot
            /\ import.pc = "done" =>
                   /\ import.at = Len(import.export) + 1
                   /\ import.writes = 1
                   /\ chats[import.chat_id] =
                          [some |-> TRUE, data |-> import.chat_data]
            /\ \A c \in ChatIds \ {import.chat_id} : chats[c] = import.snapshot

\* an import into a chat that had a document has ended: of its two
\* messages the first began with a command and the second, a text ending
\* in an entity sent by user 1, was added to two chains
C21_Witness ==
    /\ import.pc = "done"
    /\ import.snapshot.some
    /\ Len(import.export) = 2
    /\ BeginsWithBotCommand(import.export[1].contents)
    /\ import.export[1].from_id = "1"
    /\ import.calls = << [user_id |-> "1", text |-> <<"A", " ", "!">>],
                         [user_id |-> ALL, text |-> <<"A", " ", "!">>] >>
    /\ MessagesIn(chats[import.chat_id].data[ALL]) = 2
    /\ import.chat_id = 0 - 1001

(***************************************************************************)
(* Claims about the handlers of the bot.                                   *)
(***************************************************************************)
\* the count of a successor after a context in a chain, 0 if there is none
CountIn(chain, key, third) ==
    IF key \in DOMAIN chain.data /\ third \in DOMAIN chain.data[key]
    THEN chain.data[key][third] ELSE 0

\* the chain left when exactly the counts of chain u are subtracted from
\* chain all: the entries with a positive difference, the contexts that
\* keep an entry, and the seeds that keep a context
Subtracted(all, u) ==
    LET left(key) == {third \in DOMAIN all.data[key] :
                         CountIn(all, key, third) > CountIn(u, key, third)}
        keys == {key \in DOMAIN all.data : left(key) # {}}
        kept_seeds == {sd \in DOMAIN all.meta : all.meta[sd] \cap keys # {}}
    IN  [data |-> [key \in keys |->
                      [third \in left(key) |->
                          CountIn(all, key, third) - CountIn(u, key, third)]],
         meta |-> [sd \in kept_seeds |-> all.meta[sd] \cap keys]]

\* the handler answers a prompt with a yes and found a chain of the user
\* of the prompt in the stored document
ConfirmedDeletion(h) ==
    /\ h.route = "response"
    /\ is_affirmative(h.message)
    /\ h.pc \notin {"start", "respond"}
    /\ h.snapshot.some
    /\ prompt_user_id(h.prompt.value, h.message) \in DOMAIN h.snapshot.data

\* C22: a handler that answers a prompt with a yes and finds a chain of
\* the user U of the prompt in the stored document does not panic, and the
\* ChatData it writes back has no entry for U, has as chain of all users
\* the stored one with exactly the counts of U subtracted, and has every
\* other chain as stored
C22_ConfirmedDeletionEffect ==
    \A i \in 1..Len(handlers) :
        LET h == handlers[i]
            U == prompt_user_id(h.prompt.value, h.message)
            before == h.snapshot.data
        IN  ConfirmedDeletion(h) =>
                /\ h.pc # "panicked"
                /\ DOMAIN h.chat_data = DOMAIN before \ {U}
                /\ ALL \in DOMAIN before =>
                       h.chat_data[ALL] = Subtracted(before[ALL], before[U])
                /\ \A v \in DOMAIN before \ {U, ALL} : h.chat_data[v] = before[v]
                /\ h.wrote =>
                       h.pc \in {"remove_prompt", "done"} /\ h.reply = "deleted"

\* the message of the handler is a reply to the question of the prompt
\* the handler found registered for its chat and sender, and its text is
\* a yes
IsConfirmation(h) ==
    /\ h.route = "response"
    /\ h.prompt.some
    /\ h.message.reply_to = h.prompt.value.message_id
    /\ to_lowercase(h.message.text.value) \in YES_STRINGS

\* handler i writes the document of its chat in this step
Writes(i) ==
    /\ ~handlers[i].wrote
    /\ handlers'[i].wrote

EndsResponse(i) ==
    /\ handlers[i].route = "response"
    /\ handlers[i].pc \notin {"done", "panicked"}
    /\ handlers'[i].pc \in {"done", "panicked"}

\* C24: when the handling of a reply to a prompt ends without an error of
\* the storage, no prompt is left for the chat and user of the reply, so a
\* reply to the same question finds no prompt; when it ends with an error
\* of the storage the registry is left as it is, so a prompt that is
\* still registered is found again
C24_PromptLifecycle ==
    [][\A i \in 1..Len(handlers) :
          EndsResponse(i) =>
              LET message == handlers[i].message
              IN  IF handlers'[i].reply = "error"
                  THEN prompts' = prompts
                  ELSE /\ message.from.id \notin DOMAIN prompts'[message.chat]
                       /\ ~original_prompt_for(prompts', message).some]_vars

\* handler i registers its prompt in this step
AddsPrompt(i) ==
    /\ handlers[i].pc = "add_prompt"
    /\ handlers'[i].pc = "done"

\* handler i leaves the start of handle_message in this step
Dispatches(i) ==
    /\ handlers[i].pc = "start"
    /\ handlers'[i].pc # "start"

\* C25: the registry holds one prompt per chat and user: when a handler
\* of /deletemydata or /deleteuserdata registers its prompt, that prompt
\* takes the place of any prompt of the same user in the same chat and
\* every other entry stays, and from then on no reply of that user in
\* that chat to another question finds a prompt; a message is taken as a
\* response only if the registry holds, for its own chat and sender, a
\* prompt with the id of the message it replies to
C25_OnePromptPerChatAndUser ==
    [][/\ \A i \in 1..Len(handlers) :
              AddsPrompt(i) =>
                  LET c == handlers[i].message.chat
                      u == handlers[i].message.from.id
                      p == handlers[i].new_prompt
                  IN  /\ prompts'[c][u] = p
                      /\ \A c2 \in DOMAIN prompts', u2 \in ChatUsers :
                             (u2 \in DOMAIN prompts'[c2] /\ <<c2, u2>> # <<c, u>>) =>
                                 /\ c2 \in DOMAIN prompts
                                 /\ u2 \in DOMAIN prompts[c2]
                                 /\ prompts'[c2][u2] = prompts[c2][u2]
                      /\ \A m \in PromptMessages :
                             (m.chat = c /\ m.from.id = u
                                  /\ m.reply_to # p.message_id) =>
                                 ~original_prompt_for(prompts', m).some
       /\ \A i \in 1..Len(handlers) :
              (Dispatches(i) /\ handlers'[i].route = "response") =>
                  LET m == handlers[i].message
                  IN  /\ m.reply_to # 0
                      /\ m.chat \in DOMAIN prompts
                      /\ m.from.id \in DOMAIN prompts[m.chat]
                      /\ prompts[m.chat][m.from.id].message_id = m.reply_to
                      /\ handlers'[i].prompt.value = prompts[m.chat][m.from.id]]_vars

\* user 1 has sent two commands in the first chat, the prompt of the
\* second question has taken the place of that of the first, and a reply
\* of user 1 to the first question has been taken as an ordinary message
C25_Witness ==
    /\ Len(handlers) = 3
    /\ \A i \in 1..2 :
          /\ handlers[i].message.chat = TheChat
          /\ handlers[i].message.from.id = "1"
          /\ handlers[i].pc = "done"
          /\ handlers[i].new_prompt.message_id = i
    /\ prompts[TheChat]["1"].message_id = 2
    /\ handlers[3].message.reply_to = 1
    /\ handlers[3].message.chat = TheChat
    /\ handlers[3].message.from.id = "1"
    /\ handlers[3].route = "train"

\* the user a mention in a /deleteuserdata command stands for: the user
\* linked by a text mention, or the user whose username is the one
\* mentioned, whatever its case
MentionedUser(message) ==
    LET entity == message.entities[2]
        name == SubSeq(message.text.value, entity.offset + 2,
                       entity.offset + entity.length)
    IN  IF entity.type_field = "TextMention" THEN {entity.user}
        ELSE {u \in ChatUsers : /\ username_of(u).some
                                /\ to_lowercase(username_of(u).value) = to_lowercase(name)}

\* C27: a prompt to delete the data of another user is made only by the
\* handler of a /deleteuserdata command whose sender is an owner or
\* administrator and whose second entity names a user, and it is about
\* that user; a sender who is not one is answered "You aren't an admin."
\* when the list of administrators was fetched and gets no prompt; and a
\* handler removes the chain of a user other than its sender only when an
\* administrator answers a prompt made by a command of its own
C27_AdminGate ==
    /\ \A i \in 1..Len(handlers) :
          LET h == handlers[i]
              m == h.message
          IN  /\ h.new_prompt.kind = "DeleteUserData" =>
                     /\ h.route = "deleteuserdata"
                     /\ m.from.id \in Administrators
                     /\ Len(m.entities) >= 2
                     /\ h.new_prompt.user_id \in MentionedUser(m)
              /\ (h.route = "deleteuserdata" /\ m.from.id \notin Administrators) =>
                     /\ h.pc = "done"
                     /\ h.reply \in {"not_admin", "error: get_chat_administrators"}
                     /\ h.new_prompt = NoPrompt.value
              /\ (h.removed # "" /\ h.removed # m.from.id) =>
                     /\ h.prompt.value.kind = "DeleteUserData"
                     /\ h.prompt.value.user_id = h.removed
                     /\ m.from.id \in Administrators
                     /\ \E j \in 1..Len(handlers) :
                            /\ handlers[j].route = "deleteuserdata"
                            /\ handlers[j].pc = "done"
                            /\ handlers[j].message.chat = m.chat
                            /\ handlers[j].message.from.id = m.from.id
                            /\ handlers[j].new_prompt = h.prompt.value
    /\ \A c \in DOMAIN prompts : \A u \in DOMAIN prompts[c] :
          prompts[c][u].kind = "DeleteUserData" => u \in Administrators

\* user 2, who is no administrator, has been told so on a /deleteuserdata
\* command and has no prompt, and the yes of the administrator to the
\* question of a /deleteuserdata command has taken the chain of user 2
\* out of the stored document
C27_Witness ==
    /\ \E i \in 1..Len(handlers) :
          /\ handlers[i].route = "deleteuserdata"
          /\ handlers[i].message.from.id = "2"
          /\ handlers[i].reply = "not_admin"
    /\ \E i \in 1..Len(handlers) :
          /\ handlers[i].route = "response"
          /\ handlers[i].message.from.id = "1"
          /\ handlers[i].removed = "2"
          /\ handlers[i].wrote
    /\ "2" \notin DOMAIN chats[TheChat].data
    /\ "2" \notin DOMAIN prompts[TheChat]

\* the text of the leading command of a message, without the slash
CommandText(message) ==
    SubSeq(message.text.value, 2, message.entities[1].length)

\* C28: a message that is no response to a prompt and whose leading
\* command is deleteuserdata, alone or followed by '@' and a bot name,
\* goes to handle_delete_user_data_command_message, as msg goes to
\* handle_msg_command_message and deletemydata to
\* handle_delete_my_data_command_message
C28_CommandDispatch ==
    \A i \in 1..Len(handlers) :
        LET h == handlers[i]
            named(literal) ==
                \/ CommandText(h.message) = literal
                \/ starts_with(CommandText(h.message), literal \o <<"@">>)
        IN  (h.pc # "start" /\ h.route # "response" /\ h.message.text.some
                 /\ has_leading_command(h.message)) =>
                /\ named(msg_literal) => h.route = "msg"
                /\ named(deletemydata_literal) => h.route = "deletemydata"
                /\ named(deleteuserdata_literal) => h.route = "deleteuserdata"

\* the message begins with a bot command, whatever the command
FirstEntityIsCommand(message) ==
    /\ message.entities # <<>>
    /\ message.entities[1].type_field = "BotCommand"

\* the chain of a user in the data of a document, empty if there is none
ChainOf(chat_data, user_id) ==
    IF user_id \in DOMAIN chat_data THEN chat_data[user_id] ELSE EmptyChain

\* C26: a handler whose message begins with a bot command, known or not,
\* or is taken as the response to a registered prompt never enters
\* add_to_markov_chain; the handler of every other message with a sender
\* and a text enters it once, and the one ChatData it writes is the
\* document it read with the text added to the chain of the sender and
\* to the chain of all users and nothing else changed
C26_OnlyOrdinaryMessagesTrained ==
    \A i \in 1..Len(handlers) :
        LET h == handlers[i]
            m == h.message
            read == IF h.snapshot.some THEN h.snapshot.data ELSE EmptyMap
        IN  h.pc # "start" =>
                IF FirstEntityIsCommand(m) \/ h.route = "response"
                THEN /\ h.route # "train"
                     /\ h.pc \notin {"read", "write"}
                     /\ h.route # "response" =>
                            ~h.wrote /\ h.chat_data = EmptyMap
                ELSE (m.from.some /\ m.text.some) =>
                     /\ h.route = "train"
                     /\ h.pc \in {"read", "write", "done"}
                     /\ h.wrote => h.pc = "done"
                     /\ (h.pc = "write" \/ h.wrote) =>
                            /\ DOMAIN h.chat_data = DOMAIN read \cup {m.from.id, ALL}
                            /\ h.chat_data[m.from.id] =
                                   add_message(ChainOf(read, m.from.id), m.text.value)
                            /\ h.chat_data[ALL] =
                                   add_message(ChainOf(read, ALL), m.text.value)
                            /\ \A u \in DOMAIN read \ {m.from.id, ALL} :
                                   h.chat_data[u] = read[u]

\* the handler of a command has ended without reading a document, a
\* reply to its question has been taken as the response to the prompt,
\* and the handler of a text of user 1 has written the document with the
\* text added
C26_Witness ==
    /\ \E i \in 1..Len(handlers) :
          /\ FirstEntityIsCommand(handlers[i].message)
          /\ handlers[i].pc = "done"
          /\ ~handlers[i].wrote
    /\ \E i \in 1..Len(handlers) : handlers[i].route = "response"
    /\ \E i \in 1..Len(handlers) :
          /\ handlers[i].route = "train"
          /\ handlers[i].message.from.id = "1"
          /\ handlers[i].wrote
          /\ handlers[i].snapshot.some
    /\ chats[TheChat].some

(***************************************************************************)
(* The chain of all users against the chains of the users.                 *)
(***************************************************************************)
RECURSIVE CountOver(_, _, _, _)
\* the sum of the counts of a successor of a context over the chains of a
\* set of users of a ChatData
CountOver(chat_data, users, key, third) ==
    IF users = {} THEN 0
    ELSE LET u == CHOOSE x \in users : TRUE
         IN  CountIn(chat_data[u], key, third)
             + CountOver(chat_data, users \ {u}, key, third)

\* the chain of all users of a ChatData holds, for every successor of
\* every context, the sum of the counts of the chains of the users, and
\* under every seed the contexts the chains of the users hold under it
Aggregated(chat_data) ==
    LET users == DOMAIN chat_data \ {ALL}
        all == ChainOf(chat_data, ALL)
        keys == UNION {DOMAIN chat_data[u].data : u \in DOMAIN chat_data}
        seeds == UNION {DOMAIN chat_data[u].meta : u \in DOMAIN chat_data}
    IN  /\ \A key \in keys :
              \A third \in UNION {DOMAIN chat_data[u].data[key] :
                                     u \in {x \in DOMAIN chat_data :
                                               key \in DOMAIN chat_data[x].data}} :
                  CountIn(all, key, third) = CountOver(chat_data, users, key, third)
        /\ \A sd \in seeds :
              MetaOf(all, sd) = UNION {MetaOf(chat_data[u], sd) : u \in users}
        /\ DOMAIN all.data = UNION {DOMAIN chat_data[u].data : u \in users}
        /\ DOMAIN all.meta = UNION {DOMAIN chat_data[u].meta : u \in users}

\* C29: whatever the interleaving of the handlers of texts, of the
\* confirmed deletions and of a run of import_chat, in every stored
\* document of a chat the count of the chain of all users for every
\* successor of every context is the sum of the counts of the chains of
\* the users, and its meta is the union of the metas of the chains of the
\* users
C29_AggregateConsistency ==
    \A c \in ChatIds : chats[c].some => Aggregated(chats[c].data)

\* the handler of a text, a confirmed deletion and import_chat have each
\* written the document of the chat, the deletion and the handler of the
\* text from a document read before the write of another
C29_Witness ==
    /\ import.writes > 0
    /\ \E i \in 1..Len(handlers) :
          /\ handlers[i].removed # ""
          /\ handlers[i].wrote
          /\ handlers[i].snapshot # chats[TheChat]
    /\ \E i \in 1..Len(handlers) :
          /\ handlers[i].route = "train"
          /\ handlers[i].wrote
    /\ chats[TheChat].some
    /\ DOMAIN chats[TheChat].data = {ALL, "1", "2", "3"}

(***************************************************************************)
(* The lasting of a confirmed deletion.                                    *)
(***************************************************************************)
\* handler i has written the confirmed deletion of the data of user U to
\* storage, and no message of U received after that write has been handled
DeletionStands(i, U) ==
    /\ handlers[i].removed = U
    /\ handlers[i].wrote
    /\ \A j \in 1..Len(handlers) :
          (j > handlers[i].seen /\ handlers[j].message.from.some
                                /\ handlers[j].message.from.id = U)
              => handlers[j].pc = "start"

\* C30: once a handler has written the confirmed deletion of the data of
\* user U, the stored document of the chat holds no chain of U until a
\* message U sent after that write is handled, also when the handler of
\* another message of the chat read the document before the deletion and
\* writes afterwards
C30_DeletionDurable ==
    \A i \in 1..Len(handlers) : \A U \in ChatUsers :
        DeletionStands(i, U) =>
            U \notin DOMAIN chats[handlers[i].message.chat].data

(***************************************************************************)
(* The length requirement of a /msg command.                               *)
(***************************************************************************)
\* C31: on a string made of one of the five operators and a decimal i32
\* right after it, parse_length_requirement returns Ok(Some(..)) with that
\* operator and that number, whatever the iteration order of
\* COMPARISON_OPERATORS, and on a string that starts with no operator it
\* returns Ok(None)
C31_ParseLengthRequirement ==
    call.fn = "parse_length_requirement" =>
        /\ \A prefix \in DOMAIN COMPARISON_OPERATORS :
              LET number == parse_i32(SubSeq(call.arg, Len(prefix) + 1, Len(call.arg)))
              IN  (starts_with(call.arg, prefix) /\ number.ok) =>
                      call.ret = [ok |-> TRUE,
                                  requirement |->
                                      SomeRequirement(COMPARISON_OPERATORS[prefix],
                                                      number.value)]
        /\ (\A prefix \in DOMAIN COMPARISON_OPERATORS : ~starts_with(call.arg, prefix))
              => call.ret = OkNoRequirement

(***************************************************************************)
(* The depth of the search under a requirement with an upper bound.        *)
(***************************************************************************)
\* the current_length of the recursive calls the for loop of a frame makes
ChildLength(frame) ==
    frame.current_length + (IF frame.start[2] # <<>> THEN 1 ELSE 0)

\* C32: under a length requirement with operator '<', '<=' or '=' and
\* value v, every call of generate_internal that enumerates the successors
\* of its context has a current_length of at most v, every call it makes
\* has a current_length of at most v + 1, and so at most v + 2 calls are
\* active at a time, on cyclic chains too and whatever the draws
C32_PruningBoundsDepth ==
    (length_requirement.some
       /\ length_requirement.comparison_operator \in {"<", "<=", "="}) =>
        /\ \A i \in 1..Len(stack) :
              /\ stack[i].current_length <= length_requirement.value
              /\ ChildLength(stack[i]) <= length_requirement.value + 1
        /\ Len(stack) <= length_requirement.value + 2

\* on a chain with a context that is its own successor, under '= v', the
\* innermost call stands at that context with current_length v and one of
\* the calls it made at v + 1 has failed
C32_Witness ==
    /\ length_requirement.some
    /\ length_requirement.comparison_operator = "="
    /\ gen_pc = "search"
    /\ Len(stack) = length_requirement.value + 2
    /\ LET top == stack[Len(stack)]
       IN  /\ top.current_length = length_requirement.value
           /\ top.start[1] = top.start[2]
           /\ top.start[2] \in DOMAIN data[pair_to_string(top.start)]
           /\ Len(top.queue) < Cardinality(DOMAIN data[pair_to_string(top.start)])

(***************************************************************************)
(* The results of generate as walks of the chain.                          *)
(***************************************************************************)
RECURSIVE IsWalk(_, _)
\* from a context, the words are successors of one another in data with a
\* count of at least 1, and the context after the last word has the
\* boundary token as a successor
IsWalk(context, words) ==
    LET key == pair_to_string(context)
        next == encode_db_field_name(IF words = <<>> THEN <<>> ELSE Head(words))
    IN  /\ key \in DOMAIN data
        /\ next \in DOMAIN data[key]
        /\ data[key][next] >= 1
        /\ words # <<>> => IsWalk(<<context[2], Head(words)>>, Tail(words))

\* C33: the words generate returns are a walk of the chain: without a seed
\* from the context (ε, ε), so the first word is a successor of (ε, ε);
\* with a seed from the start context drawn, whose second token is the
\* first word, is registered in meta under the lower-cased seed and has
\* the lower-cased seed among its normalizations; in both cases every
\* step has a count of at least 1 and the last context has the boundary
\* token as a successor
C33_ResultIsWalk ==
    (gen_pc = "done" /\ result.kind = "Ok") =>
        IF ~seed.some
        THEN IsWalk(<< <<>>, <<>> >>, result.words)
        ELSE LET start == drawn[Len(drawn)]
                 word_encoded == encode_db_field_name(to_lowercase(seed.word))
             IN  /\ result.words # <<>>
                 /\ start[2] = Head(result.words)
                 /\ pair_to_string(start) \in meta[word_encoded]
                 /\ word_encoded \in get_associated_seeds_encoded(Head(result.words))
                 /\ IsWalk(start, Tail(result.words))

\* a seed other than the first word returned gave a result of three
\* words, the first of them with the reserved prefix
C33_Witness ==
    /\ gen_pc = "done"
    /\ result.kind = "Ok"
    /\ seed.some
    /\ seed.word # Head(result.words)
    /\ Head(Head(result.words)) = "$"
    /\ Len(result.words) = 3

(***************************************************************************)
(* Dead ends of the search.                                                *)
(***************************************************************************)
\* C34: on a chain trained on at least one message with a word, every
\* context generate(None, None) comes to is the end of a message or a key
\* of data, so every call that enumerates successors finds some, and
\* generate(None, None) returns Ok with at least one word
C34_NoDeadEnds ==
    (data # EmptyMap /\ ~seed.some /\ ~length_requirement.some) =>
        /\ \A i \in 1..Len(stack) : pair_to_string(stack[i].start) \in DOMAIN data
        /\ gen_pc = "done" => (result.kind = "Ok" /\ Len(result.words) >= 1)

(***************************************************************************)
(* The arithmetic of the pruning.                                          *)
(***************************************************************************)
\* the values of current_length generate_internal has been entered with:
\* 0 once a start was drawn, and those of the calls that are active
ReachedLengths ==
    (IF drawn # <<>> THEN {0} ELSE {})
        \cup {stack[i].current_length : i \in 1..Len(stack)}

\* C35: under a length requirement is_valid accepts, for every
\* current_length generate_internal is entered with, difference, which is
\* computed when the requirement is not satisfied, stays within the range
\* of i32
C35_NoOverflowInDifference ==
    (length_requirement.some /\ is_valid(length_requirement)) =>
        \A n \in ReachedLengths :
            ~is_satisfied_by(length_requirement, n)
                => ~difference_overflows(length_requirement, n)

(***************************************************************************)
(* The order of training.                                                  *)
(***************************************************************************)
\* C36: when add_message has been called on a text, adding any second
\* message now gives the data and the meta that adding the second message
\* first and the text after it gives from the chain before the call
C36_TrainingOrderIndependent ==
    hist.op = "add" =>
        \A m \in Texts :
            add_message(Chain, m) = add_message(add_message(hist.pre, m), hist.text)

\* a second message was added to a chain trained on another message that
\* shares a context with it
C36_Witness ==
    /\ hist.op = "add"
    /\ nadds = 2
    /\ hist.pre # EmptyChain
    /\ hist.pre # Chain
    /\ add_message(EmptyChain, hist.text) # hist.pre
    /\ \E key \in DOMAIN data : \E third \in DOMAIN data[key] :
          /\ data[key][third] = 2
          /\ key # <<" ">>

(***************************************************************************)
(* Captions.                                                               *)
(***************************************************************************)
\* C37: the handler of a message of a user that has a caption and no text,
\* and so no command, enters add_to_markov_chain, and the ChatData it
\* writes is the document it read with the caption added to the chain of
\* the sender and to the chain of all users
C37_CaptionsTrained ==
    \A i \in 1..Len(handlers) :
        LET h == handlers[i]
            m == h.message
        IN  (m.from.some /\ ~m.text.some /\ m.caption.some /\ h.pc # "start") =>
                /\ h.route = "train"
                /\ h.pc \in {"write", "done"} =>
                      /\ ChainOf(h.chat_data, m.from.id)
                            = add_message(ChainOf(h.snapshot.data, m.from.id),
                                          m.caption.value)
                      /\ ChainOf(h.chat_data, ALL)
                            = add_message(ChainOf(h.snapshot.data, ALL),
                                          m.caption.value)

=============================================================================
